---- MODULE Spec2Model ----
(***************************************************************************)
(* A model of nestegg, a 6502 emulator: the opcode table and its decoder   *)
(* and encoder (src/src/instruction.rs) and the machine state, operand     *)
(* resolution, instruction handlers and step loop (src/src/lib.rs).        *)
(*                                                                         *)
(* Rust values are modelled as follows.                                    *)
(*   Result<T, &'static str>  a record [val |-> T, err |-> STRING], err    *)
(*                            being "" for Ok;                             *)
(*   a panic                  the flag `panicked` of the machine value: an *)
(*                            out-of-range index panics in every build, an *)
(*                            arithmetic overflow panics when the build    *)
(*                            has overflow checks (debug) and wraps when   *)
(*                            it has none (release);                       *)
(*   Vec<u8>                  its length and its non-zero cells.           *)
(***************************************************************************)
EXTENDS Integers, Sequences, FiniteSets, TLC

VARIABLES
  memory,           \* ComputerState.memory: [len |-> n, cells |-> the non-zero cells]
  registers,        \* ComputerState.registers: a RegisterFile
  result,           \* what the last call returned: "Ok", an error string or "Panic"
  overflow_checks,  \* the build: TRUE when integer overflow panics (debug)
  fold,             \* multiple_steps: [steps |-> n, i |-> iterations of the fold taken]
  call,             \* the last call made and the machine value it was made on
  io                \* the argument and the results of the opcode table's functions

vars == <<memory, registers, result, overflow_checks, fold, call, io>>

Byte == 0..255

\* The twelve addressing modes (enum OperandMode).
OperandMode ==
  {"Absolute", "AbsoluteX", "AbsoluteY", "Accumulator", "Immediate", "Implied",
   "Indirect", "IndirectX", "IndirectY", "ZeroPage", "ZeroPageX", "ZeroPageY"}

\* The 56 mnemonics (enum Operation).
Operation ==
  {"ADC", "AND", "ASL", "BCC", "BCS", "BEQ", "BIT", "BMI",
   "BNE", "BPL", "BRK", "BVC", "BVS", "CLC", "CLD", "CLI",
   "CLV", "CMP", "CPX", "CPY", "DEC", "DEX", "DEY", "EOR",
   "INC", "INX", "INY", "JMP", "JSR", "LDA", "LDX", "LDY",
   "LSR", "NOP", "ORA", "PHA", "PHP", "PLA", "PLP", "ROL",
   "ROR", "RTI", "RTS", "SBC", "SEC", "SED", "SEI", "STA",
   "STX", "STY", "TAX", "TAY", "TSX", "TXA", "TXS", "TYA"}

NUM_TUPLES == 151

\* The opcode table, in the order of the source: <<byte, mode, operation>>.
INSTRUCTION_TUPLES ==
  <<
    <<105, "Immediate", "ADC">>, <<101, "ZeroPage", "ADC">>, <<117, "ZeroPageX", "ADC">>,
    <<109, "Absolute", "ADC">>, <<125, "AbsoluteX", "ADC">>, <<121, "AbsoluteY", "ADC">>,
    <<97, "IndirectX", "ADC">>, <<113, "IndirectY", "ADC">>, <<41, "Immediate", "AND">>,
    <<37, "ZeroPage", "AND">>, <<53, "ZeroPageX", "AND">>, <<45, "Absolute", "AND">>,
    <<61, "AbsoluteX", "AND">>, <<57, "AbsoluteY", "AND">>, <<33, "IndirectX", "AND">>,
    <<49, "IndirectY", "AND">>, <<10, "Accumulator", "ASL">>, <<6, "ZeroPage", "ASL">>,
    <<22, "ZeroPageX", "ASL">>, <<14, "Absolute", "ASL">>, <<30, "AbsoluteX", "ASL">>,
    <<144, "Immediate", "BCC">>, <<176, "Immediate", "BCS">>, <<240, "Immediate", "BEQ">>,
    <<36, "ZeroPage", "BIT">>, <<44, "Absolute", "BIT">>, <<48, "Immediate", "BMI">>,
    <<208, "Immediate", "BNE">>, <<16, "Immediate", "BPL">>, <<0, "Implied", "BRK">>,
    <<80, "Immediate", "BVC">>, <<112, "Immediate", "BVS">>, <<24, "Implied", "CLC">>,
    <<216, "Implied", "CLD">>, <<88, "Implied", "CLI">>, <<184, "Implied", "CLV">>,
    <<201, "Immediate", "CMP">>, <<197, "ZeroPage", "CMP">>, <<213, "ZeroPageX", "CMP">>,
    <<205, "Absolute", "CMP">>, <<221, "AbsoluteX", "CMP">>, <<217, "AbsoluteY", "CMP">>,
    <<193, "IndirectX", "CMP">>, <<209, "IndirectY", "CMP">>, <<224, "Immediate", "CPX">>,
    <<228, "ZeroPage", "CPX">>, <<236, "Absolute", "CPX">>, <<192, "Immediate", "CPY">>,
    <<196, "ZeroPage", "CPY">>, <<204, "Absolute", "CPY">>, <<198, "ZeroPage", "DEC">>,
    <<214, "ZeroPageX", "DEC">>, <<206, "Absolute", "DEC">>, <<222, "AbsoluteX", "DEC">>,
    <<202, "Implied", "DEX">>, <<136, "Implied", "DEY">>, <<73, "Immediate", "EOR">>,
    <<69, "ZeroPage", "EOR">>, <<85, "ZeroPageX", "EOR">>, <<77, "Absolute", "EOR">>,
    <<93, "AbsoluteX", "EOR">>, <<89, "AbsoluteY", "EOR">>, <<65, "IndirectX", "EOR">>,
    <<81, "IndirectY", "EOR">>, <<230, "ZeroPage", "INC">>, <<246, "ZeroPageX", "INC">>,
    <<238, "Absolute", "INC">>, <<254, "AbsoluteX", "INC">>, <<232, "Implied", "INX">>,
    <<200, "Implied", "INY">>, <<76, "Absolute", "JMP">>, <<108, "Indirect", "JMP">>,
    <<32, "Absolute", "JSR">>, <<169, "Immediate", "LDA">>, <<165, "ZeroPage", "LDA">>,
    <<181, "ZeroPageX", "LDA">>, <<173, "Absolute", "LDA">>, <<189, "AbsoluteX", "LDA">>,
    <<185, "AbsoluteY", "LDA">>, <<161, "IndirectX", "LDA">>, <<177, "IndirectY", "LDA">>,
    <<162, "Immediate", "LDX">>, <<166, "ZeroPage", "LDX">>, <<182, "ZeroPageY", "LDX">>,
    <<174, "Absolute", "LDX">>, <<190, "AbsoluteY", "LDX">>, <<160, "Immediate", "LDY">>,
    <<164, "ZeroPage", "LDY">>, <<180, "ZeroPageX", "LDY">>, <<172, "Absolute", "LDY">>,
    <<188, "AbsoluteX", "LDY">>, <<74, "Accumulator", "LSR">>, <<70, "ZeroPage", "LSR">>,
    <<86, "ZeroPageX", "LSR">>, <<78, "Absolute", "LSR">>, <<94, "AbsoluteX", "LSR">>,
    <<234, "Implied", "NOP">>, <<9, "Immediate", "ORA">>, <<5, "ZeroPage", "ORA">>,
    <<21, "ZeroPageX", "ORA">>, <<13, "Absolute", "ORA">>, <<29, "AbsoluteX", "ORA">>,
    <<25, "AbsoluteY", "ORA">>, <<1, "IndirectX", "ORA">>, <<17, "IndirectY", "ORA">>,
    <<72, "Implied", "PHA">>, <<8, "Implied", "PHP">>, <<104, "Implied", "PLA">>,
    <<40, "Implied", "PLP">>, <<42, "Accumulator", "ROL">>, <<38, "ZeroPage", "ROL">>,
    <<54, "ZeroPageX", "ROL">>, <<46, "Absolute", "ROL">>, <<62, "AbsoluteX", "ROL">>,
    <<106, "Accumulator", "ROR">>, <<102, "ZeroPage", "ROR">>, <<118, "ZeroPageX", "ROR">>,
    <<110, "Absolute", "ROR">>, <<126, "AbsoluteX", "ROR">>, <<64, "Implied", "RTI">>,
    <<96, "Implied", "RTS">>, <<233, "Immediate", "SBC">>, <<229, "ZeroPage", "SBC">>,
    <<245, "ZeroPageX", "SBC">>, <<237, "Absolute", "SBC">>, <<253, "AbsoluteX", "SBC">>,
    <<249, "AbsoluteY", "SBC">>, <<225, "IndirectX", "SBC">>, <<241, "IndirectY", "SBC">>,
    <<56, "Implied", "SEC">>, <<248, "Implied", "SED">>, <<120, "Implied", "SEI">>,
    <<133, "ZeroPage", "STA">>, <<149, "ZeroPageX", "STA">>, <<141, "Absolute", "STA">>,
    <<157, "AbsoluteX", "STA">>, <<153, "AbsoluteY", "STA">>, <<129, "IndirectX", "STA">>,
    <<145, "IndirectY", "STA">>, <<134, "ZeroPage", "STX">>, <<150, "ZeroPageY", "STX">>,
    <<142, "Absolute", "STX">>, <<132, "ZeroPage", "STY">>, <<148, "ZeroPageX", "STY">>,
    <<140, "Absolute", "STY">>, <<170, "Implied", "TAX">>, <<168, "Implied", "TAY">>,
    <<186, "Implied", "TSX">>, <<138, "Implied", "TXA">>, <<154, "Implied", "TXS">>,
    <<152, "Implied", "TYA">>
  >>

Ok(v) == [val |-> v, err |-> ""]
Err(msg) == [val |-> <<>>, err |-> msg]
IsOk(r) == r.err = ""

\* An encoder that compares the operation and forgets the addressing mode.
instruction_to_bytecode_ignoring_mode(instruction) ==
  LET hits == {i \in 1..NUM_TUPLES : INSTRUCTION_TUPLES[i][3] = instruction[2]}
      first == CHOOSE i \in hits : \A j \in hits : i <= j
  IN  IF hits = {} THEN Err("Can't find instruction")
      ELSE Ok(INSTRUCTION_TUPLES[first][1])

\* instruction_to_bytecode: the loop returns the byte of the first row whose
\* instruction is the given <<mode, operation>>.
instruction_to_bytecode(instruction) ==
  LET hits == {i \in 1..NUM_TUPLES :
                 <<INSTRUCTION_TUPLES[i][2], INSTRUCTION_TUPLES[i][3]>> = instruction}
      first == CHOOSE i \in hits : \A j \in hits : i <= j
  IN  IF hits = {} THEN Err("Can't find instruction")
      ELSE Ok(INSTRUCTION_TUPLES[first][1])

\* A decoder that falls back to NOP instead of failing.
bytecode_to_instruction_defaulting(bytecode) ==
  LET hits == {i \in 1..NUM_TUPLES : INSTRUCTION_TUPLES[i][1] = bytecode}
      first == CHOOSE i \in hits : \A j \in hits : i <= j
  IN  IF hits = {} THEN Ok(<<"Implied", "NOP">>)
      ELSE Ok(<<INSTRUCTION_TUPLES[first][2], INSTRUCTION_TUPLES[first][3]>>)

\* A decoder that compares only the low seven bits of the byte.
bytecode_to_instruction_masked(bytecode) ==
  LET hits == {i \in 1..NUM_TUPLES : INSTRUCTION_TUPLES[i][1] % 128 = bytecode % 128}
      first == CHOOSE i \in hits : \A j \in hits : i <= j
  IN  IF hits = {} THEN Err("Can't find instruction")
      ELSE Ok(<<INSTRUCTION_TUPLES[first][2], INSTRUCTION_TUPLES[first][3]>>)

\* bytecode_to_instruction: the loop returns the instruction of the first row
\* whose byte is the given one.
bytecode_to_instruction(bytecode) ==
  LET hits == {i \in 1..NUM_TUPLES : INSTRUCTION_TUPLES[i][1] = bytecode}
      first == CHOOSE i \in hits : \A j \in hits : i <= j
  IN  IF hits = {} THEN Err("Can't find instruction")
      ELSE Ok(<<INSTRUCTION_TUPLES[first][2], INSTRUCTION_TUPLES[first][3]>>)

\* decode_instruction, which step calls: the decoder of the opcode table.
decode_instruction(bytecode) == bytecode_to_instruction(bytecode)


(***************************************************************************)
(* The machine value and its memory (struct ComputerState).                *)
(***************************************************************************)

\* enum StatusFlag: the bit index of each flag in the status register.
CARRY == 0
ZERO == 1
INTERRUPT == 2
DECIMAL == 3
BREAK == 4
RESERVED == 5
OVERFLOW == 6
NEGATIVE == 7

\* RegisterFile{ ..Default::default() }
DefaultRegisterFile ==
  [accumulator |-> 0, x |-> 0, y |-> 0, status |-> 0, stack_pointer |-> 0,
   program_counter |-> 0]

\* A Vec<u8> holding the bytes of the sequence `bytes`.
VecOf(bytes) ==
  [len |-> Len(bytes),
   cells |-> [i \in {j \in 0..(Len(bytes) - 1) : bytes[j + 1] # 0} |-> bytes[i + 1]]]

\* vec![0; 2usize.pow(16)]
ZeroVec == [len |-> 2^16, cells |-> [i \in {} |-> 0]]

initialize == [memory |-> ZeroVec, registers |-> DefaultRegisterFile, panicked |-> FALSE]

initialize_from_image(image) ==
  [memory |-> image, registers |-> DefaultRegisterFile, panicked |-> FALSE]

Ret(cs, v) == [cs |-> cs, val |-> v, err |-> ""]
Fail(cs, msg) == [cs |-> cs, val |-> 0, err |-> msg]

\* A panic unwinds: nothing after it runs, so every primitive below leaves a
\* panicked machine value as it is.
Panic(cs) == [cs EXCEPT !.panicked = TRUE]

SetReg(cs, name, v) ==
  IF cs.panicked THEN cs ELSE [cs EXCEPT !.registers = [@ EXCEPT ![name] = v]]

\* a + b in an unsigned type of `bits` bits: wraps, and panics in a build
\* with overflow checks when the sum does not fit.
checked_add(cs, a, b, bits) ==
  Ret(IF overflow_checks /\ a + b >= 2^bits THEN Panic(cs) ELSE cs, (a + b) % (2^bits))

\* a - b in an unsigned type of `bits` bits.
checked_sub(cs, a, b, bits) ==
  Ret(IF overflow_checks /\ a < b THEN Panic(cs) ELSE cs, (a - b) % (2^bits))

\* self.registers.program_counter += n
advance_program_counter(cs, n) ==
  LET r == checked_add(cs, cs.registers.program_counter, n, 16)
  IN  SetReg(r.cs, "program_counter", r.val)

\* self.memory[index]: Vec indexing panics outside 0..len-1.
Cell(cs, index) ==
  IF index \in DOMAIN cs.memory.cells THEN cs.memory.cells[index] ELSE 0

get_byte_from_memory(cs, index) ==
  IF cs.panicked THEN Ret(cs, 0)
  ELSE IF index >= cs.memory.len THEN Ret(Panic(cs), 0)
  ELSE Ret(cs, Cell(cs, index))

get_word_from_memory(cs, index) ==
  LET low == get_byte_from_memory(cs, index)
      high == get_byte_from_memory(low.cs, index + 1)
  IN  Ret(high.cs, low.val + 256 * high.val)

write_byte_to_memory(cs, index, value) ==
  IF cs.panicked THEN cs
  ELSE IF index >= cs.memory.len THEN Panic(cs)
  ELSE [cs EXCEPT !.memory.cells =
          IF value = 0 THEN [i \in (DOMAIN @) \ {index} |-> @[i]]
          ELSE [i \in (DOMAIN @) \cup {index} |-> IF i = index THEN value ELSE @[i]]]

write_word_to_memory(cs, index, value) ==
  write_byte_to_memory(write_byte_to_memory(cs, index, value % 256),
                       index + 1, value \div 256)

\* A pull that reads the cell under the stack pointer before raising it.
pull_byte_from_stack_reading_first(cs) ==
  LET stack_address == cs.registers.stack_pointer + 256
      c1 == SetReg(cs, "stack_pointer", (cs.registers.stack_pointer + 1) % 256)
  IN  get_byte_from_memory(c1, stack_address)

pull_byte_from_stack(cs) ==
  LET c1 == SetReg(cs, "stack_pointer", (cs.registers.stack_pointer + 1) % 256)
      stack_address == c1.registers.stack_pointer + 256
  IN  get_byte_from_memory(c1, stack_address)

pull_word_from_stack(cs) ==
  LET low == pull_byte_from_stack(cs)
      high == pull_byte_from_stack(low.cs)
  IN  Ret(high.cs, low.val + 256 * high.val)

\* A push that lowers the stack pointer with a plain `- 1`.
push_byte_to_stack_unwrapped(cs, value) ==
  LET stack_address == cs.registers.stack_pointer + 256
      c1 == write_byte_to_memory(cs, stack_address, value)
      lowered == checked_sub(c1, c1.registers.stack_pointer, 1, 8)
  IN  SetReg(lowered.cs, "stack_pointer", lowered.val)

push_byte_to_stack(cs, value) ==
  LET stack_address == cs.registers.stack_pointer + 256
      c1 == write_byte_to_memory(cs, stack_address, value)
  IN  SetReg(c1, "stack_pointer", (c1.registers.stack_pointer - 1) % 256)

push_word_to_stack(cs, value) ==
  push_byte_to_stack(push_byte_to_stack(cs, value \div 256), value % 256)

(***************************************************************************)
(* Operands and the status register.                                       *)
(***************************************************************************)

\* enum Operand
Accumulator == [kind |-> "Accumulator", v |-> 0]
Address(a) == [kind |-> "Address", v |-> a]
Immediate(b) == [kind |-> "Immediate", v |-> b]
Implied == [kind |-> "Implied", v |-> 0]

get_operand_value(cs, operand) ==
  CASE operand.kind = "Accumulator" -> Ret(cs, cs.registers.accumulator)
    [] operand.kind = "Address" -> get_byte_from_memory(cs, operand.v)
    [] operand.kind = "Immediate" -> Ret(cs, operand.v)
    [] operand.kind = "Implied" -> Fail(cs, "Cannot get implied operand value")

set_operand_value(cs, operand, value) ==
  CASE operand.kind = "Accumulator" -> Ret(SetReg(cs, "accumulator", value), 0)
    [] operand.kind = "Address" -> Ret(write_byte_to_memory(cs, operand.v, value), 0)
    [] operand.kind = "Immediate" -> Fail(cs, "Cannot set immediate operand value")
    [] operand.kind = "Implied" -> Fail(cs, "Cannot set implied operand value")

\* Bit `index` of the byte `value`.
Bit(value, index) == (value \div (2^index)) % 2

\* A flag read without the mask: (status >> index) != 0
get_status_flag_unmasked(cs, status_flag) == cs.registers.status \div (2^status_flag) # 0

get_status_flag(cs, status_flag) == Bit(cs.registers.status, status_flag) # 0

\* A flag write without the clearing step: status |= (new_flag as u8) << index
set_status_flag_or_only(cs, status_flag, new_flag) ==
  LET raised == IF new_flag /\ Bit(cs.registers.status, status_flag) = 0
                THEN 2^status_flag ELSE 0
  IN  SetReg(cs, "status", cs.registers.status + raised)

\* status &= !(1 << index); status |= (new_flag as u8) << index
set_status_flag(cs, status_flag, new_flag) ==
  LET cleared == cs.registers.status - Bit(cs.registers.status, status_flag) * (2^status_flag)
  IN  SetReg(cs, "status", cleared + (IF new_flag THEN 2^status_flag ELSE 0))

\* A flag update that rebuilds the status byte from Carry, Overflow and the
\* two new flags.
set_zero_and_negative_flags_rebuilding_status(cs, value) ==
  LET kept == Bit(cs.registers.status, CARRY) * (2^CARRY)
                + Bit(cs.registers.status, OVERFLOW) * (2^OVERFLOW)
      c1 == SetReg(cs, "status", kept)
  IN  set_status_flag(set_status_flag(c1, ZERO, value = 0), NEGATIVE, Bit(value, 7) # 0)

set_zero_and_negative_flags(cs, value) ==
  set_status_flag(set_status_flag(cs, ZERO, value = 0), NEGATIVE, Bit(value, 7) # 0)

\* util::is_negative: the sign bit of a byte.
is_negative(value) == Bit(value, 7) # 0

\* The bitwise operators of u8, bit by bit.
BitAnd(a, b) ==
  LET f[i \in 0..8] == IF i = 8 THEN 0 ELSE (2^i) * Bit(a, i) * Bit(b, i) + f[i + 1]
  IN  f[0]

BitOr(a, b) == a + b - BitAnd(a, b)

BitXor(a, b) == a + b - 2 * BitAnd(a, b)


(***************************************************************************)
(* Operand resolution: fetch_operand and the functions it dispatches to.   *)
(***************************************************************************)

get_absolute_operand(cs, offset) ==
  LET address == get_word_from_memory(cs, cs.registers.program_counter)
      c1 == advance_program_counter(address.cs, 2)
      sum == checked_add(c1, address.val, offset, 16)
  IN  Ret(sum.cs, Address(sum.val))

get_immediate_operand(cs) ==
  LET address == cs.registers.program_counter
      c1 == advance_program_counter(cs, 1)
      byte == get_byte_from_memory(c1, address)
  IN  Ret(byte.cs, Immediate(byte.val))

\* An indirect operand fetch that advances program_counter as the
\* one-byte indirect modes do.
get_indirect_operand_advancing_one(cs) ==
  LET pointer_address == get_word_from_memory(cs, cs.registers.program_counter)
      pointer == get_word_from_memory(pointer_address.cs, pointer_address.val)
      c1 == advance_program_counter(pointer.cs, 1)
  IN  Ret(c1, Address(pointer.val))

get_indirect_operand(cs) ==
  LET pointer_address == get_word_from_memory(cs, cs.registers.program_counter)
      pointer == get_word_from_memory(pointer_address.cs, pointer_address.val)
      c1 == advance_program_counter(pointer.cs, 2)
  IN  Ret(c1, Address(pointer.val))

\* A pre-indexed resolution that does not wrap the pointer location to the
\* zero page.
get_indirect_x_operand_unmasked(cs) ==
  LET address == get_byte_from_memory(cs, cs.registers.program_counter)
      offset == cs.registers.x
      pointer_address == address.val + offset
      pointer == get_word_from_memory(address.cs, pointer_address)
      c1 == advance_program_counter(pointer.cs, 1)
  IN  Ret(c1, Address(pointer.val))

get_indirect_x_operand(cs) ==
  LET address == get_byte_from_memory(cs, cs.registers.program_counter)
      offset == cs.registers.x
      pointer_address == (address.val + offset) % 256
      pointer == get_word_from_memory(address.cs, pointer_address)
      c1 == advance_program_counter(pointer.cs, 1)
  IN  Ret(c1, Address(pointer.val))

get_indirect_y_operand(cs) ==
  LET address == get_byte_from_memory(cs, cs.registers.program_counter)
      pointer == get_word_from_memory(address.cs, address.val)
      offset == cs.registers.x
      c1 == advance_program_counter(pointer.cs, 1)
      sum == checked_add(c1, pointer.val, offset, 16)
  IN  Ret(sum.cs, Address(sum.val))

get_zero_page_operand(cs, offset) ==
  LET address == get_byte_from_memory(cs, cs.registers.program_counter)
      sum == checked_add(address.cs, address.val, offset, 8)
      final_address == sum.val % 256
      c1 == advance_program_counter(sum.cs, 1)
  IN  Ret(c1, Address(final_address))

\* An operand fetch that reads an operand byte for an Implied instruction.
fetch_operand_implied_reads_byte(cs, mode) ==
  CASE mode = "Absolute" -> get_absolute_operand(cs, 0)
    [] mode = "AbsoluteX" -> get_absolute_operand(cs, cs.registers.x)
    [] mode = "AbsoluteY" -> get_absolute_operand(cs, cs.registers.y)
    [] mode = "Accumulator" -> Ret(cs, Accumulator)
    [] mode = "Immediate" -> get_immediate_operand(cs)
    [] mode = "Implied" -> Ret(get_immediate_operand(cs).cs, Implied)
    [] mode = "Indirect" -> get_indirect_operand(cs)
    [] mode = "IndirectX" -> get_indirect_x_operand(cs)
    [] mode = "IndirectY" -> get_indirect_y_operand(cs)
    [] mode = "ZeroPage" -> get_zero_page_operand(cs, 0)
    [] mode = "ZeroPageX" -> get_zero_page_operand(cs, cs.registers.x)
    [] mode = "ZeroPageY" -> get_zero_page_operand(cs, cs.registers.y)

fetch_operand(cs, mode) ==
  CASE mode = "Absolute" -> get_absolute_operand(cs, 0)
    [] mode = "AbsoluteX" -> get_absolute_operand(cs, cs.registers.x)
    [] mode = "AbsoluteY" -> get_absolute_operand(cs, cs.registers.y)
    [] mode = "Accumulator" -> Ret(cs, Accumulator)
    [] mode = "Immediate" -> get_immediate_operand(cs)
    [] mode = "Implied" -> Ret(cs, Implied)
    [] mode = "Indirect" -> get_indirect_operand(cs)
    [] mode = "IndirectX" -> get_indirect_x_operand(cs)
    [] mode = "IndirectY" -> get_indirect_y_operand(cs)
    [] mode = "ZeroPage" -> get_zero_page_operand(cs, 0)
    [] mode = "ZeroPageX" -> get_zero_page_operand(cs, cs.registers.x)
    [] mode = "ZeroPageY" -> get_zero_page_operand(cs, cs.registers.y)

(***************************************************************************)
(* The instruction handlers.  Each returns Ret(cs, 0) for Ok(()) and        *)
(* Fail(cs, msg) for Err(msg), cs being the machine value as the handler   *)
(* leaves it.                                                              *)
(***************************************************************************)

\* ADC that does not add the carry flag.
execute_add_without_carry_in(cs, operand) ==
  LET operand_value == get_operand_value(cs, operand)
  IN  IF operand_value.err # "" THEN operand_value
      ELSE
        LET c0 == operand_value.cs
            accumulator == c0.registers.accumulator
            sum16 == operand_value.val + accumulator
            c1 == set_status_flag(c0, CARRY, Bit(sum16, 8) # 0)
            sum == sum16 % 256
            overflow == (is_negative(operand_value.val) = is_negative(accumulator))
                          /\ (is_negative(sum) # is_negative(operand_value.val))
            c2 == set_status_flag(c1, OVERFLOW, overflow)
            c3 == set_zero_and_negative_flags(c2, sum)
        IN  Ret(SetReg(c3, "accumulator", sum), 0)

\* ADC that sets the overflow flag whenever the sign of the result differs
\* from the sign of the operand.
execute_add_with_carry_sign_only(cs, operand) ==
  LET operand_value == get_operand_value(cs, operand)
  IN  IF operand_value.err # "" THEN operand_value
      ELSE
        LET c0 == operand_value.cs
            carry == IF get_status_flag(c0, CARRY) THEN 1 ELSE 0
            accumulator == c0.registers.accumulator
            sum16 == operand_value.val + carry + accumulator
            c1 == set_status_flag(c0, CARRY, Bit(sum16, 8) # 0)
            sum == sum16 % 256
            overflow == is_negative(sum) # is_negative(operand_value.val)
            c2 == set_status_flag(c1, OVERFLOW, overflow)
            c3 == set_zero_and_negative_flags(c2, sum)
        IN  Ret(SetReg(c3, "accumulator", sum), 0)

execute_add_with_carry(cs, operand) ==
  LET operand_value == get_operand_value(cs, operand)
  IN  IF operand_value.err # "" THEN operand_value
      ELSE
        LET c0 == operand_value.cs
            carry == IF get_status_flag(c0, CARRY) THEN 1 ELSE 0
            accumulator == c0.registers.accumulator
            sum16 == operand_value.val + carry + accumulator
            new_carry == Bit(sum16, 8) # 0
            c1 == set_status_flag(c0, CARRY, new_carry)
            sum == sum16 % 256
            byte_positive == ~is_negative(operand_value.val)
            accumulator_positive == ~is_negative(accumulator)
            sum_positive == ~is_negative(sum)
            overflow == (byte_positive = accumulator_positive)
                          /\ (sum_positive # byte_positive)
            c2 == set_status_flag(c1, OVERFLOW, overflow)
            c3 == set_zero_and_negative_flags(c2, sum)
        IN  Ret(SetReg(c3, "accumulator", sum), 0)

execute_and(cs, operand) ==
  LET operand_value == get_operand_value(cs, operand)
  IN  IF operand_value.err # "" THEN operand_value
      ELSE
        LET c0 == operand_value.cs
            res == BitAnd(c0.registers.accumulator, operand_value.val)
        IN  Ret(SetReg(set_zero_and_negative_flags(c0, res), "accumulator", res), 0)

execute_left_shift(cs, operand) ==
  LET operand_value == get_operand_value(cs, operand)
  IN  IF operand_value.err # "" THEN operand_value
      ELSE
        LET high_bit == Bit(operand_value.val, 7) # 0
            res == (operand_value.val * 2) % 256
            c1 == set_status_flag(operand_value.cs, CARRY, high_bit)
            c2 == set_zero_and_negative_flags(c1, res)
        IN  set_operand_value(c2, operand, res)

\* A branch that adds the signed displacement without the adjustment by 2.
execute_branch_if_unadjusted(cs, operand, flag, value) ==
  IF get_status_flag(cs, flag) = value
  THEN
    LET operand_value == get_operand_value(cs, operand)
    IN  IF operand_value.err # "" THEN operand_value
        ELSE
          LET signed == IF operand_value.val > 127
                        THEN (operand_value.val - 256) % (2^16)
                        ELSE operand_value.val
              target == (operand_value.cs.registers.program_counter + signed) % (2^16)
          IN  Ret(SetReg(operand_value.cs, "program_counter", target), 0)
  ELSE Ret(cs, 0)

execute_branch_if(cs, operand, flag, value) ==
  IF get_status_flag(cs, flag) = value
  THEN
    LET operand_value == get_operand_value(cs, operand)
    IN  IF operand_value.err # "" THEN operand_value
        ELSE
          LET signed == IF operand_value.val > 127
                        THEN (operand_value.val - 256) % (2^16)
                        ELSE operand_value.val
              target == (operand_value.cs.registers.program_counter
                           + ((signed - 2) % (2^16))) % (2^16)
          IN  Ret(SetReg(operand_value.cs, "program_counter", target), 0)
  ELSE Ret(cs, 0)

\* BIT that takes Negative and Overflow from accumulator & operand.
execute_bit_test_flags_from_and(cs, operand) ==
  LET operand_value == get_operand_value(cs, operand)
  IN  IF operand_value.err # "" THEN operand_value
      ELSE
        LET c0 == operand_value.cs
            and_result == BitAnd(c0.registers.accumulator, operand_value.val)
            c1 == set_status_flag(c0, NEGATIVE, Bit(and_result, 7) # 0)
            c2 == set_status_flag(c1, OVERFLOW, Bit(and_result, 6) # 0)
        IN  Ret(set_status_flag(c2, ZERO, and_result = 0), 0)

execute_bit_test(cs, operand) ==
  LET operand_value == get_operand_value(cs, operand)
  IN  IF operand_value.err # "" THEN operand_value
      ELSE
        LET c0 == operand_value.cs
            bit_7 == Bit(operand_value.val, 7) # 0
            bit_6 == Bit(operand_value.val, 6) # 0
            and_result == BitAnd(c0.registers.accumulator, operand_value.val)
            c1 == set_status_flag(c0, NEGATIVE, bit_7)
            c2 == set_status_flag(c1, OVERFLOW, bit_6)
        IN  Ret(set_status_flag(c2, ZERO, and_result = 0), 0)

\* A compare that sets Carry only when the register is strictly greater.
execute_compare_strict(cs, operand, register) ==
  LET operand_value == get_operand_value(cs, operand)
  IN  IF operand_value.err # "" THEN operand_value
      ELSE
        LET substract_value == (register - operand_value.val) % 256
            c1 == set_zero_and_negative_flags(operand_value.cs, substract_value)
        IN  Ret(set_status_flag(c1, CARRY, register > operand_value.val), 0)

execute_compare(cs, operand, register) ==
  LET operand_value == get_operand_value(cs, operand)
  IN  IF operand_value.err # "" THEN operand_value
      ELSE
        LET substract_value == (register - operand_value.val) % 256
            c1 == set_zero_and_negative_flags(operand_value.cs, substract_value)
        IN  Ret(set_status_flag(c1, CARRY, register >= operand_value.val), 0)

\* INC/DEC with a plain `+ 1` and `- 1`.
execute_increment_unwrapped(cs, operand, negate) ==
  LET operand_value == get_operand_value(cs, operand)
  IN  IF operand_value.err # "" THEN operand_value
      ELSE
        LET moved == IF negate THEN checked_sub(operand_value.cs, operand_value.val, 1, 8)
                     ELSE checked_add(operand_value.cs, operand_value.val, 1, 8)
            c1 == set_zero_and_negative_flags(moved.cs, moved.val)
        IN  set_operand_value(c1, operand, moved.val)

execute_increment(cs, operand, negate) ==
  LET operand_value == get_operand_value(cs, operand)
  IN  IF operand_value.err # "" THEN operand_value
      ELSE
        LET res == IF negate THEN (operand_value.val - 1) % 256
                   ELSE (operand_value.val + 1) % 256
            c1 == set_zero_and_negative_flags(operand_value.cs, res)
        IN  set_operand_value(c1, operand, res)

execute_increment_x(cs, negate) ==
  LET res == IF negate THEN (cs.registers.x - 1) % 256 ELSE (cs.registers.x + 1) % 256
  IN  Ret(SetReg(set_zero_and_negative_flags(cs, res), "x", res), 0)

execute_increment_y(cs, negate) ==
  LET res == IF negate THEN (cs.registers.y - 1) % 256 ELSE (cs.registers.y + 1) % 256
  IN  Ret(SetReg(set_zero_and_negative_flags(cs, res), "y", res), 0)

execute_exclusive_or(cs, operand) ==
  LET operand_value == get_operand_value(cs, operand)
  IN  IF operand_value.err # "" THEN operand_value
      ELSE
        LET c0 == operand_value.cs
            res == BitXor(c0.registers.accumulator, operand_value.val)
        IN  Ret(SetReg(set_zero_and_negative_flags(c0, res), "accumulator", res), 0)

\* JSR that pushes program_counter itself as the return address.
execute_jump_pushing_program_counter(cs, operand, save_ra) ==
  LET c1 == IF save_ra THEN push_word_to_stack(cs, cs.registers.program_counter)
            ELSE cs
  IN  IF operand.kind = "Address" THEN Ret(SetReg(c1, "program_counter", operand.v), 0)
      ELSE Fail(c1, "Jump must have Address-type operand")

execute_jump(cs, operand, save_ra) ==
  LET return_address == checked_sub(cs, cs.registers.program_counter, 1, 16)
      c1 == IF save_ra THEN push_word_to_stack(return_address.cs, return_address.val)
            ELSE cs
  IN  IF operand.kind = "Address" THEN Ret(SetReg(c1, "program_counter", operand.v), 0)
      ELSE Fail(c1, "Jump must have Address-type operand")

execute_load_accumulator(cs, operand) ==
  LET operand_value == get_operand_value(cs, operand)
  IN  IF operand_value.err # "" THEN operand_value
      ELSE Ret(SetReg(set_zero_and_negative_flags(operand_value.cs, operand_value.val),
                      "accumulator", operand_value.val), 0)

execute_load_x(cs, operand) ==
  LET operand_value == get_operand_value(cs, operand)
  IN  IF operand_value.err # "" THEN operand_value
      ELSE Ret(SetReg(set_zero_and_negative_flags(operand_value.cs, operand_value.val),
                      "x", operand_value.val), 0)

execute_load_y(cs, operand) ==
  LET operand_value == get_operand_value(cs, operand)
  IN  IF operand_value.err # "" THEN operand_value
      ELSE Ret(SetReg(set_zero_and_negative_flags(operand_value.cs, operand_value.val),
                      "y", operand_value.val), 0)

execute_right_shift(cs, operand) ==
  LET operand_value == get_operand_value(cs, operand)
  IN  IF operand_value.err # "" THEN operand_value
      ELSE
        LET low_bit == Bit(operand_value.val, 0) # 0
            res == operand_value.val \div 2
            c1 == set_status_flag(operand_value.cs, CARRY, low_bit)
            c2 == set_zero_and_negative_flags(c1, res)
        IN  set_operand_value(c2, operand, res)

execute_inclusive_or(cs, operand) ==
  LET operand_value == get_operand_value(cs, operand)
  IN  IF operand_value.err # "" THEN operand_value
      ELSE
        LET c0 == operand_value.cs
            res == BitOr(c0.registers.accumulator, operand_value.val)
        IN  Ret(SetReg(set_zero_and_negative_flags(c0, res), "accumulator", res), 0)

execute_pull_accumulator(cs) ==
  LET new_accumulator == pull_byte_from_stack(cs)
      c1 == set_zero_and_negative_flags(new_accumulator.cs, new_accumulator.val)
  IN  Ret(SetReg(c1, "accumulator", new_accumulator.val), 0)

execute_pull_status(cs) ==
  LET pulled == pull_byte_from_stack(cs)
  IN  Ret(SetReg(pulled.cs, "status", pulled.val), 0)

\* ROR that shifts a zero into bit 7 instead of the Carry flag.
execute_rotate_right_dropping_carry(cs, operand) ==
  LET operand_value == get_operand_value(cs, operand)
  IN  IF operand_value.err # "" THEN operand_value
      ELSE
        LET c0 == operand_value.cs
            low_bit == Bit(operand_value.val, 0) # 0
            new_high_bit == 0
            res == BitOr(operand_value.val \div 2, new_high_bit)
            c1 == set_zero_and_negative_flags(c0, res)
            c2 == set_status_flag(c1, CARRY, low_bit)
        IN  set_operand_value(c2, operand, res)

execute_rotate_right(cs, operand) ==
  LET operand_value == get_operand_value(cs, operand)
  IN  IF operand_value.err # "" THEN operand_value
      ELSE
        LET c0 == operand_value.cs
            low_bit == Bit(operand_value.val, 0) # 0
            new_high_bit == IF get_status_flag(c0, CARRY) THEN 128 ELSE 0
            res == BitOr(operand_value.val \div 2, new_high_bit)
            c1 == set_zero_and_negative_flags(c0, res)
            c2 == set_status_flag(c1, CARRY, low_bit)
        IN  set_operand_value(c2, operand, res)

\* ROL that shifts in a zero, as ASL does.
execute_rotate_left_dropping_carry(cs, operand) ==
  LET operand_value == get_operand_value(cs, operand)
  IN  IF operand_value.err # "" THEN operand_value
      ELSE
        LET c0 == operand_value.cs
            high_bit == Bit(operand_value.val, 7) # 0
            res == (operand_value.val * 2) % 256
            c1 == set_zero_and_negative_flags(c0, res)
            c2 == set_status_flag(c1, CARRY, high_bit)
        IN  set_operand_value(c2, operand, res)

execute_rotate_left(cs, operand) ==
  LET operand_value == get_operand_value(cs, operand)
  IN  IF operand_value.err # "" THEN operand_value
      ELSE
        LET c0 == operand_value.cs
            high_bit == Bit(operand_value.val, 7) # 0
            new_low_bit == IF get_status_flag(c0, CARRY) THEN 1 ELSE 0
            res == BitOr((operand_value.val * 2) % 256, new_low_bit)
            c1 == set_zero_and_negative_flags(c0, res)
            c2 == set_status_flag(c1, CARRY, high_bit)
        IN  set_operand_value(c2, operand, res)

execute_return_from_interrupt(cs) ==
  LET status == pull_byte_from_stack(cs)
      c1 == SetReg(status.cs, "status", status.val)
      word == pull_word_from_stack(c1)
  IN  Ret(SetReg(word.cs, "program_counter", word.val), 0)

execute_return_from_subroutine(cs) ==
  LET word == pull_word_from_stack(cs)
      sum == checked_add(word.cs, word.val, 1, 16)
  IN  Ret(SetReg(sum.cs, "program_counter", sum.val), 0)

\* SBC whose overflow follows the rule of ADC on the operand itself.
execute_substract_with_carry_adding_overflow(cs, operand) ==
  LET operand_value == get_operand_value(cs, operand)
  IN  IF operand_value.err # "" THEN operand_value
      ELSE
        LET c0 == operand_value.cs
            accumulator == c0.registers.accumulator
            carry == 1 - (IF get_status_flag(c0, CARRY) THEN 1 ELSE 0)
            first_sum == (accumulator - operand_value.val) % 256
            first_overflow == accumulator < operand_value.val
            res == (first_sum - carry) % 256
            second_overflow == first_sum < carry
            new_carry == ~first_overflow /\ ~second_overflow
            c1 == set_status_flag(c0, CARRY, new_carry)
            byte_positive == ~is_negative(operand_value.val)
            accumulator_positive == ~is_negative(accumulator)
            sum_positive == ~is_negative(res)
            overflow == (byte_positive = accumulator_positive)
                          /\ (sum_positive # byte_positive)
            c2 == set_status_flag(c1, OVERFLOW, overflow)
            c3 == set_zero_and_negative_flags(c2, res)
        IN  Ret(SetReg(c3, "accumulator", res), 0)

\* SBC whose new carry looks at the first subtraction only.
execute_substract_with_carry_first_borrow_only(cs, operand) ==
  LET operand_value == get_operand_value(cs, operand)
  IN  IF operand_value.err # "" THEN operand_value
      ELSE
        LET c0 == operand_value.cs
            accumulator == c0.registers.accumulator
            carry == 1 - (IF get_status_flag(c0, CARRY) THEN 1 ELSE 0)
            first_sum == (accumulator - operand_value.val) % 256
            first_overflow == accumulator < operand_value.val
            res == (first_sum - carry) % 256
            c1 == set_status_flag(c0, CARRY, ~first_overflow)
            byte_positive == ~is_negative(operand_value.val)
            accumulator_positive == ~is_negative(accumulator)
            sum_positive == ~is_negative(res)
            overflow == (byte_positive # accumulator_positive)
                          /\ (sum_positive = byte_positive)
            c2 == set_status_flag(c1, OVERFLOW, overflow)
            c3 == set_zero_and_negative_flags(c2, res)
        IN  Ret(SetReg(c3, "accumulator", res), 0)

execute_substract_with_carry(cs, operand) ==
  LET operand_value == get_operand_value(cs, operand)
  IN  IF operand_value.err # "" THEN operand_value
      ELSE
        LET c0 == operand_value.cs
            accumulator == c0.registers.accumulator
            carry == 1 - (IF get_status_flag(c0, CARRY) THEN 1 ELSE 0)
            first_sum == (accumulator - operand_value.val) % 256
            first_overflow == accumulator < operand_value.val
            res == (first_sum - carry) % 256
            second_overflow == first_sum < carry
            new_carry == ~first_overflow /\ ~second_overflow
            c1 == set_status_flag(c0, CARRY, new_carry)
            byte_positive == ~is_negative(operand_value.val)
            accumulator_positive == ~is_negative(accumulator)
            sum_positive == ~is_negative(res)
            overflow == (byte_positive # accumulator_positive)
                          /\ (sum_positive = byte_positive)
            c2 == set_status_flag(c1, OVERFLOW, overflow)
            c3 == set_zero_and_negative_flags(c2, res)
        IN  Ret(SetReg(c3, "accumulator", res), 0)

execute_operation(cs, op, operand) ==
  CASE op = "ADC" -> execute_add_with_carry(cs, operand)
    [] op = "AND" -> execute_and(cs, operand)
    [] op = "ASL" -> execute_left_shift(cs, operand)
    [] op = "BCC" -> execute_branch_if(cs, operand, CARRY, FALSE)
    [] op = "BCS" -> execute_branch_if(cs, operand, CARRY, TRUE)
    [] op = "BEQ" -> execute_branch_if(cs, operand, ZERO, TRUE)
    [] op = "BIT" -> execute_bit_test(cs, operand)
    [] op = "BMI" -> execute_branch_if(cs, operand, NEGATIVE, TRUE)
    [] op = "BNE" -> execute_branch_if(cs, operand, ZERO, FALSE)
    [] op = "BPL" -> execute_branch_if(cs, operand, NEGATIVE, FALSE)
    [] op = "BVC" -> execute_branch_if(cs, operand, OVERFLOW, FALSE)
    [] op = "BVS" -> execute_branch_if(cs, operand, OVERFLOW, TRUE)
    [] op = "CLC" -> Ret(set_status_flag(cs, CARRY, FALSE), 0)
    [] op = "CLD" -> Ret(set_status_flag(cs, DECIMAL, FALSE), 0)
    [] op = "CLI" -> Ret(set_status_flag(cs, INTERRUPT, FALSE), 0)
    [] op = "CLV" -> Ret(set_status_flag(cs, OVERFLOW, FALSE), 0)
    [] op = "CMP" -> execute_compare(cs, operand, cs.registers.accumulator)
    [] op = "CPX" -> execute_compare(cs, operand, cs.registers.x)
    [] op = "CPY" -> execute_compare(cs, operand, cs.registers.y)
    [] op = "DEC" -> execute_increment(cs, operand, TRUE)
    [] op = "DEX" -> execute_increment_x(cs, TRUE)
    [] op = "DEY" -> execute_increment_y(cs, TRUE)
    [] op = "EOR" -> execute_exclusive_or(cs, operand)
    [] op = "INC" -> execute_increment(cs, operand, FALSE)
    [] op = "INX" -> execute_increment_x(cs, FALSE)
    [] op = "INY" -> execute_increment_y(cs, FALSE)
    [] op = "JMP" -> execute_jump(cs, operand, FALSE)
    [] op = "JSR" -> execute_jump(cs, operand, TRUE)
    [] op = "LDA" -> execute_load_accumulator(cs, operand)
    [] op = "LDX" -> execute_load_x(cs, operand)
    [] op = "LDY" -> execute_load_y(cs, operand)
    [] op = "LSR" -> execute_right_shift(cs, operand)
    [] op = "NOP" -> Ret(cs, 0)
    [] op = "ORA" -> execute_inclusive_or(cs, operand)
    [] op = "PHA" -> Ret(push_byte_to_stack(cs, cs.registers.accumulator), 0)
    [] op = "PHP" -> Ret(push_byte_to_stack(cs, cs.registers.status), 0)
    [] op = "PLA" -> execute_pull_accumulator(cs)
    [] op = "PLP" -> execute_pull_status(cs)
    [] op = "ROL" -> execute_rotate_left(cs, operand)
    [] op = "ROR" -> execute_rotate_right(cs, operand)
    [] op = "RTI" -> execute_return_from_interrupt(cs)
    [] op = "RTS" -> execute_return_from_subroutine(cs)
    [] op = "SBC" -> execute_substract_with_carry(cs, operand)
    [] op = "SEC" -> Ret(set_status_flag(cs, CARRY, TRUE), 0)
    [] op = "SED" -> Ret(set_status_flag(cs, DECIMAL, TRUE), 0)
    [] op = "SEI" -> Ret(set_status_flag(cs, INTERRUPT, TRUE), 0)
    [] OTHER -> Fail(cs, "Unimplemented operation")

(***************************************************************************)
(* The step loop.                                                          *)
(***************************************************************************)

\* step: Ret(cs, 0) for Ok(self); Fail(cs, msg) for Err(msg), cs being the
\* value of self that the function held when it returned and that is dropped
\* with it.
step(cs) ==
  LET instruction == get_byte_from_memory(cs, cs.registers.program_counter)
      c1 == advance_program_counter(instruction.cs, 1)
      decoded_instruction == decode_instruction(instruction.val)
  IN  IF c1.panicked THEN Ret(c1, 0)
      ELSE IF decoded_instruction.err # "" THEN Fail(c1, decoded_instruction.err)
      ELSE
        LET operand == fetch_operand(c1, decoded_instruction.val[1])
        IN  IF operand.cs.panicked THEN Ret(operand.cs, 0)
            ELSE execute_operation(operand.cs, decoded_instruction.val[2], operand.val)

\* What a call that ended with the result record r gave its caller.
Outcome(r) == IF r.cs.panicked THEN "Panic" ELSE IF r.err # "" THEN r.err ELSE "Ok"


(***************************************************************************)
(* The machines the step loop is run on.                                   *)
(***************************************************************************)

\* The largest step count multiple_steps is called with.
MaxSteps == 6

\* Operand bytes of the three-byte programs.
OperandBytes == {0, 16, 255}

\* tests/lib.rs, smoketest: vec![0xEA; 10], and .multiple_steps(10)
NopImage == VecOf([i \in 1..10 |-> 234])
SmoketestSteps == 10

\* tests/lib.rs, fibonacci_test: the program followed by 512 zero bytes.
FibonacciImage ==
  VecOf(<<24, 162, 0, 160, 1, 152, 134, 32, 101, 32, 176, 8, 72, 164, 32, 170,
          144, 245, 112, 0, 0>> \o [i \in 1..512 |-> 0])

\* tests/lib.rs, fibonacci_test: .multiple_steps(600), and the values it
\* expects at 0x1FF, 0x1FE, ... afterwards.
FibonacciSteps == 600
\* A 65536-cell memory that starts with `bytes`: initialize() followed by
\* writes to the public field `memory`.
LoadedMemory(bytes) ==
  [len |-> 2^16,
   cells |-> [i \in {j \in 0..(Len(bytes) - 1) : bytes[j + 1] # 0} |-> bytes[i + 1]]]

\* Programs that move values through X, the stack and the program counter:
\*   LDX #$FF; LDA $10,X; NOP
\*   LDA #$80; PHA; ADC #$80; PHP; PLA; PLP; RTS
\*   JSR $0005; NOP; NOP; RTS
\*   LDX #$02; LDA ($10),Y; INX; DEC $00
\*   NOP; JMP $FFFF
\*   SEC; SED; LDX #$80; NOP
Programs ==
  { <<162, 255, 181, 16, 234>>,
    <<169, 128, 72, 105, 128, 8, 104, 40, 96>>,
    <<32, 5, 0, 234, 234, 96>>,
    <<162, 2, 177, 16, 232, 198, 0>>,
    <<234, 76, 255, 255>>,
    <<56, 248, 162, 128, 234>> }

NoCall == [fn |-> "none"]
NoIo == [stage |-> "none"]

\* ComputerState::initialize() or initialize_from_image(image), then
\* multiple_steps(steps) is called on it.
Init ==
  /\ overflow_checks \in BOOLEAN
  /\ \E image \in {NopImage, FibonacciImage, ZeroVec}
                   \cup {LoadedMemory(<<b0, b1, b2>>) :
                           b0 \in Byte, b1 \in OperandBytes, b2 \in OperandBytes}
                   \cup {LoadedMemory(program) : program \in Programs}
                   \cup {VecOf(program) : program \in Programs} :
       LET cs == IF image = ZeroVec THEN initialize ELSE initialize_from_image(image)
       IN  /\ memory = cs.memory
           /\ registers = cs.registers
           /\ \E steps \in (0..MaxSteps)
                             \cup (IF image = FibonacciImage THEN {FibonacciSteps} ELSE {})
                             \cup (IF image = NopImage THEN {SmoketestSteps} ELSE {}) :
                fold = [steps |-> steps, i |-> 0]
  /\ result = "Ok"
  /\ call = NoCall
  /\ io = NoIo

\* The machine value the variables hold.
Machine == [memory |-> memory, registers |-> registers, panicked |-> FALSE]

\* A fold that does not stop at an error: fold instead of try_fold.
multiple_steps_never_stops == fold.i < fold.steps

\* (0..steps).try_fold(...): the closure is called on the next element of
\* the range unless the last call returned an error.
multiple_steps_continues == fold.i < fold.steps /\ result = "Ok"

\* One call of the closure |state, _| state.step() of multiple_steps.
Step ==
  /\ multiple_steps_continues
  /\ LET r == step(Machine)
     IN  /\ memory' = r.cs.memory
         /\ registers' = r.cs.registers
         /\ result' = Outcome(r)
  /\ fold' = [fold EXCEPT !.i = @ + 1]
  /\ call' = [fn |-> "step", memory |-> memory, registers |-> registers]
  /\ UNCHANGED <<overflow_checks, io>>

Next == Step

Spec == Init /\ [][Next]_vars

\* What multiple_steps returns once the fold has ended: Ok(state) or
\* Err(msg); a panic unwinds through it and returns nothing.
multiple_steps_returned ==
  IF result = "Ok" THEN [ok |-> [memory |-> memory, registers |-> registers]]
  ELSE IF result = "Panic" THEN [unwound |-> TRUE]
  ELSE [err |-> result]

(***************************************************************************)
(* The opcode table's functions, applied to every byte and every           *)
(* <<mode, operation>> pair.                                               *)
(***************************************************************************)

TableInit ==
  /\ overflow_checks = FALSE
  /\ memory = initialize.memory
  /\ registers = initialize.registers
  /\ result = "Ok"
  /\ fold = [steps |-> 0, i |-> 0]
  /\ call = NoCall
  /\ \/ \E b \in Byte : io = [stage |-> "byte", byte |-> b]
     \/ \E m \in OperandMode, o \in Operation :
          io = [stage |-> "instruction", instruction |-> <<m, o>>]

Decode ==
  /\ io.stage = "byte"
  /\ io' = [stage |-> "decoded", byte |-> io.byte,
            decoded |-> bytecode_to_instruction(io.byte)]
  /\ UNCHANGED <<memory, registers, result, overflow_checks, fold, call>>

EncodeDecoded ==
  /\ io.stage = "decoded"
  /\ IsOk(io.decoded)
  /\ io' = [stage |-> "byte_round_trip", byte |-> io.byte, decoded |-> io.decoded,
            encoded |-> instruction_to_bytecode(io.decoded.val)]
  /\ UNCHANGED <<memory, registers, result, overflow_checks, fold, call>>

Encode ==
  /\ io.stage = "instruction"
  /\ io' = [stage |-> "encoded", instruction |-> io.instruction,
            encoded |-> instruction_to_bytecode(io.instruction)]
  /\ UNCHANGED <<memory, registers, result, overflow_checks, fold, call>>

DecodeEncoded ==
  /\ io.stage = "encoded"
  /\ IsOk(io.encoded)
  /\ io' = [stage |-> "instruction_round_trip", instruction |-> io.instruction,
            encoded |-> io.encoded,
            decoded |-> bytecode_to_instruction(io.encoded.val)]
  /\ UNCHANGED <<memory, registers, result, overflow_checks, fold, call>>

TableNext == Decode \/ EncodeDecoded \/ Encode \/ DecodeEncoded

SpecTable == TableInit /\ [][TableNext]_vars


(***************************************************************************)
(* Properties of the opcode table.                                         *)
(***************************************************************************)

\* C1: the decoder and the encoder are inverses over the opcode table: a
\* byte that decodes encodes back to itself, and a <<mode, operation>> pair
\* that encodes decodes back to itself.
C1_RoundTrip ==
  /\ io.stage = "byte_round_trip" => io.encoded = Ok(io.byte)
  /\ io.stage = "instruction_round_trip" => io.decoded = Ok(io.instruction)

\* 0x98 was decoded to (Implied, TYA) and encoded again.
C1_Witness ==
  /\ io.stage = "byte_round_trip"
  /\ io.byte = 152
  /\ io.decoded = Ok(<<"Implied", "TYA">>)

\* The bytes the decoder accepts.
DecodableBytes == {b \in Byte : IsOk(bytecode_to_instruction(b))}

\* C2: decoding is total over the 256 bytes: a byte decodes to the pair of
\* one row of the table or gives the unknown-opcode error; 0x80 gives the
\* error; 151 bytes decode and 105 give the error.
C2_DecodeTotal ==
  /\ io.stage = "decoded" =>
       \/ /\ IsOk(io.decoded)
          /\ \E i \in 1..NUM_TUPLES :
               INSTRUCTION_TUPLES[i] = <<io.byte, io.decoded.val[1], io.decoded.val[2]>>
          /\ \A i, j \in 1..NUM_TUPLES :
               INSTRUCTION_TUPLES[i][1] = io.byte /\ INSTRUCTION_TUPLES[j][1] = io.byte
                 => i = j
       \/ io.decoded = Err("Can't find instruction")
  /\ (io.stage = "decoded" /\ io.byte = 128) =>
       /\ ~IsOk(io.decoded)
       /\ Cardinality(DecodableBytes) = 151
       /\ Cardinality(Byte \ DecodableBytes) = 105

\* 0x80 was decoded and gave the error.
C2_Witness ==
  /\ io.stage = "decoded"
  /\ io.byte = 128
  /\ io.decoded = Err("Can't find instruction")

\* C3: the table holds the standard encoding of the named opcodes, 0x69,
\* 0x00, 0x4C, 0x6C and 0x98, and all 56 mnemonics.
C3_StandardEncoding ==
  io.stage = "decoded" =>
    /\ io.byte = 105 => io.decoded = Ok(<<"Immediate", "ADC">>)
    /\ io.byte = 0 => io.decoded = Ok(<<"Implied", "BRK">>)
    /\ io.byte = 76 => io.decoded = Ok(<<"Absolute", "JMP">>)
    /\ io.byte = 108 => io.decoded = Ok(<<"Indirect", "JMP">>)
    /\ io.byte = 152 => io.decoded = Ok(<<"Implied", "TYA">>)
    /\ io.byte = 0 =>
         /\ {INSTRUCTION_TUPLES[i][3] : i \in 1..NUM_TUPLES} = Operation
         /\ Cardinality(Operation) = 56

\* 0x6C was decoded to (Indirect, JMP).
C3_Witness ==
  /\ io.stage = "decoded"
  /\ io.byte = 108
  /\ io.decoded = Ok(<<"Indirect", "JMP">>)


(***************************************************************************)
(* Properties of the step loop.                                            *)
(***************************************************************************)

\* C4: step is atomic: a call of step applies the whole effect of one
\* instruction, or returns an error and leaves every register and every
\* memory cell as it was before the call.
C4_StepAtomic ==
  call.fn = "step" =>
    \/ result = "Ok"
    \/ /\ result # "Panic"
       /\ memory = call.memory
       /\ registers = call.registers

\* C6, as claimed: multiple_steps(n) applies step at most n times; when no
\* step fails it has applied exactly n; when the k-th step fails no further
\* step runs and the call returns the error together with the number k-1 of
\* steps that completed.
C6_RunReturnsCompletedCount ==
  /\ fold.i <= fold.steps
  /\ (~multiple_steps_continues /\ result = "Ok") =>
       /\ fold.i = fold.steps
       /\ multiple_steps_returned = [ok |-> [memory |-> memory, registers |-> registers]]
  /\ result \notin {"Ok", "Panic"} =>
       /\ ~multiple_steps_continues
       /\ multiple_steps_returned = [err |-> result, completed |-> fold.i - 1]

\* C6, amended: multiple_steps(n) applies step at most n times; when no step
\* fails it has applied exactly n (none when n = 0) and returns the state;
\* when the k-th step returns an error no further step runs and the call
\* returns that error alone, without a count of the steps that completed;
\* when the k-th step panics no further step runs either.
C6_RunStopsAtFirstError ==
  /\ fold.i <= fold.steps
  /\ fold.steps = 0 => call = NoCall /\ result = "Ok"
  /\ (~multiple_steps_continues /\ result = "Ok") =>
       /\ fold.i = fold.steps
       /\ multiple_steps_returned = [ok |-> [memory |-> memory, registers |-> registers]]
  /\ result # "Ok" =>
       /\ ~multiple_steps_continues
       /\ call.fn = "step"
       /\ result # "Panic" => multiple_steps_returned = [err |-> result]

\* multiple_steps(6) on the Fibonacci image: three steps completed and the
\* fourth returned an error, with two iterations of the range left.
C6_Witness ==
  /\ memory.len = FibonacciImage.len
  /\ result = "Unimplemented operation"
  /\ fold.i = 4
  /\ fold.steps = 6

\* C7: memory always has 65536 cells, and a machine that has just been
\* constructed has all-zero registers.
C7_MemoryIs64K ==
  /\ memory.len = 2^16
  /\ call = NoCall => registers = DefaultRegisterFile

\* C8: on a machine with the 65536 cells of initialize(), no step faults:
\* every index stays in 0..65535 and all arithmetic wraps.
C8_NoFault == memory.len = 2^16 => result # "Panic"

(***************************************************************************)
(* ADC applied to every accumulator, operand and carry.                    *)
(***************************************************************************)

AdcInit ==
  /\ overflow_checks = TRUE
  /\ memory = initialize.memory
  /\ \E a \in Byte, status \in {0, 1, 202, 203} :
       registers = [initialize.registers EXCEPT !.accumulator = a, !.status = status]
  /\ result = "Ok"
  /\ fold = [steps |-> 0, i |-> 0]
  /\ call = NoCall
  /\ io = NoIo

\* execute_operation(Operation::ADC, Operand::Immediate(b)) on a machine on
\* which nothing was executed yet.
ExecuteAdc ==
  /\ call = NoCall
  /\ \E b \in Byte :
       LET r == execute_operation(Machine, "ADC", Immediate(b))
       IN  /\ memory' = r.cs.memory
           /\ registers' = r.cs.registers
           /\ result' = Outcome(r)
           /\ call' = [fn |-> "execute_operation", op |-> "ADC",
                       operand |-> Immediate(b), memory |-> memory,
                       registers |-> registers]
  /\ UNCHANGED <<overflow_checks, fold, io>>

SpecAdc == AdcInit /\ [][ExecuteAdc]_vars

\* Whether bit `index` of the status byte is set.
StatusBit(status, index) == (status \div (2^index)) % 2 = 1

\* The sign of a byte: TRUE when it is negative as a signed byte.
Sign(value) == value >= 128

\* C9: ADC is bit-exact: with sum16 = a + b + carry_in the accumulator
\* becomes sum16 mod 256, Carry is bit 8 of sum16, Overflow is set when a and
\* b have one sign and the result the other, Zero and Negative follow the
\* result.
C9_AdcBitExact ==
  (call.fn = "execute_operation" /\ call.op = "ADC") =>
    LET a == call.registers.accumulator
        b == call.operand.v
        carry_in == call.registers.status % 2
        sum16 == a + b + carry_in
        res == sum16 % 256
    IN  /\ result = "Ok"
        /\ registers.accumulator = res
        /\ StatusBit(registers.status, 0) = (sum16 \div 256 = 1)
        /\ StatusBit(registers.status, 6) = ((Sign(b) = Sign(a)) /\ (Sign(res) # Sign(b)))
        /\ StatusBit(registers.status, 1) = (res = 0)
        /\ StatusBit(registers.status, 7) = (res \div 128 = 1)

\* 0x7F + 0x00 with carry in: 0x80, overflow and negative set, carry clear.
C9_Witness ==
  /\ call.fn = "execute_operation"
  /\ call.op = "ADC"
  /\ call.registers.accumulator = 127
  /\ call.operand.v = 0
  /\ call.registers.status = 1
  /\ registers.accumulator = 128
  /\ registers.status = 192

(***************************************************************************)
(* Chains of ADC from accumulator 33, as in the test it_executes_adc.      *)
(***************************************************************************)

\* The longest chain of ADC instructions executed.
MaxChain == 3

ChainInit ==
  /\ overflow_checks \in BOOLEAN
  /\ memory = initialize.memory
  /\ registers = [initialize.registers EXCEPT !.accumulator = 33]
  /\ result = "Ok"
  /\ fold = [steps |-> 0, i |-> 0]
  /\ call = NoCall
  /\ io = [stage |-> "chain", operands |-> <<>>]

\* The next ADC of the chain.
ChainAdc ==
  /\ Len(io.operands) < MaxChain
  /\ result = "Ok"
  /\ \E b \in {24, 55, 99, 100, 200} :
       LET r == execute_operation(Machine, "ADC", Immediate(b))
       IN  /\ memory' = r.cs.memory
           /\ registers' = r.cs.registers
           /\ result' = Outcome(r)
           /\ call' = [fn |-> "execute_operation", op |-> "ADC",
                       operand |-> Immediate(b), memory |-> memory,
                       registers |-> registers]
           /\ io' = [io EXCEPT !.operands = Append(@, b)]
  /\ UNCHANGED <<overflow_checks, fold>>

SpecAdcChain == ChainInit /\ [][ChainAdc]_vars

\* C10, as claimed: from accumulator 33 with Carry clear, ADC #24 gives 57
\* and Carry clear; then ADC #200 gives 56 and Carry set; then ADC #99 gives
\* 0 with Zero and Carry set.
C10_CarryChainAsClaimed ==
  /\ io.operands = <<24>> =>
       registers.accumulator = 57 /\ ~StatusBit(registers.status, 0)
  /\ io.operands = <<24, 200>> =>
       registers.accumulator = 56 /\ StatusBit(registers.status, 0)
  /\ io.operands = <<24, 200, 99>> =>
       /\ registers.accumulator = 0
       /\ StatusBit(registers.status, 1)
       /\ StatusBit(registers.status, 0)

\* C10, amended: from accumulator 33 with Carry clear, ADC #24 gives 57 and
\* Carry clear; then ADC #200 gives 1 (257 mod 256) and Carry set; then
\* ADC #99, consuming that carry, gives 101 with Zero and Carry clear.
C10_CarryChain ==
  /\ io.operands = <<24>> =>
       registers.accumulator = 57 /\ ~StatusBit(registers.status, 0)
  /\ io.operands = <<24, 200>> =>
       registers.accumulator = 1 /\ StatusBit(registers.status, 0)
  /\ io.operands = <<24, 200, 99>> =>
       /\ registers.accumulator = 101
       /\ ~StatusBit(registers.status, 1)
       /\ ~StatusBit(registers.status, 0)

\* The three instructions of the chain were executed.
C10_Witness ==
  /\ io.stage = "chain"
  /\ io.operands = <<24, 200, 99>>
  /\ result = "Ok"
  /\ registers.accumulator = 101

(***************************************************************************)
(* SBC applied to every accumulator, operand and carry.                    *)
(***************************************************************************)

\* execute_operation(Operation::SBC, Operand::Immediate(b)) on a machine on
\* which nothing was executed yet.
ExecuteSbc ==
  /\ call = NoCall
  /\ \E b \in Byte :
       LET r == execute_operation(Machine, "SBC", Immediate(b))
       IN  /\ memory' = r.cs.memory
           /\ registers' = r.cs.registers
           /\ result' = Outcome(r)
           /\ call' = [fn |-> "execute_operation", op |-> "SBC",
                       operand |-> Immediate(b), memory |-> memory,
                       registers |-> registers]
  /\ UNCHANGED <<overflow_checks, fold, io>>

SpecSbc == AdcInit /\ [][ExecuteSbc]_vars

\* C11: SBC is bit-exact: the accumulator becomes
\* (a - b - (1 - carry_in)) mod 256, computed as a - b and then
\* - (1 - carry_in), each in 8 bits; Carry is set exactly when neither of
\* the two subtractions underflowed; Overflow is set exactly when a and b
\* differ in sign and the result has the sign of b; Zero and Negative follow
\* the result.
C11_SbcBitExact ==
  (call.fn = "execute_operation" /\ call.op = "SBC") =>
    LET a == call.registers.accumulator
        b == call.operand.v
        carry_in == call.registers.status % 2
        first == (a - b) % 256
        res == (a - b - (1 - carry_in)) % 256
    IN  /\ result = "Ok"
        /\ registers.accumulator = res
        /\ StatusBit(registers.status, 0) = (a >= b /\ first >= 1 - carry_in)
        /\ StatusBit(registers.status, 6) = ((Sign(b) # Sign(a)) /\ (Sign(res) = Sign(b)))
        /\ StatusBit(registers.status, 1) = (res = 0)
        /\ StatusBit(registers.status, 7) = (res \div 128 = 1)

\* 10 - 128 with carry set, the last case of it_executes_sbc: 138, Negative
\* and Overflow set, Carry clear (the subtraction underflowed).
C11_Witness ==
  /\ call.fn = "execute_operation"
  /\ call.op = "SBC"
  /\ call.registers.accumulator = 10
  /\ call.operand.v = 128
  /\ call.registers.status = 1
  /\ registers.accumulator = 138
  /\ registers.status = 192

(***************************************************************************)
(* Branches executed by step.                                              *)
(***************************************************************************)

\* The status flag a branch operation tests and the value it branches on,
\* as execute_operation passes them to execute_branch_if.
BranchCondition(op) ==
  CASE op = "BCC" -> <<CARRY, FALSE>>
    [] op = "BCS" -> <<CARRY, TRUE>>
    [] op = "BEQ" -> <<ZERO, TRUE>>
    [] op = "BNE" -> <<ZERO, FALSE>>
    [] op = "BMI" -> <<NEGATIVE, TRUE>>
    [] op = "BPL" -> <<NEGATIVE, FALSE>>
    [] op = "BVC" -> <<OVERFLOW, FALSE>>
    [] op = "BVS" -> <<OVERFLOW, TRUE>>

BranchOperations == {"BCC", "BCS", "BEQ", "BNE", "BMI", "BPL", "BVC", "BVS"}

\* The byte at `index` of the memory the last call started from.
CallCell(index) == Cell([memory |-> call.memory], index)

\* The operation of the instruction the last step fetched, "" when its
\* opcode does not decode.
SteppedOperation ==
  LET decoded == decode_instruction(CallCell(call.registers.program_counter))
  IN  IF decoded.err = "" THEN decoded.val[2] ELSE ""

\* C12: a step that executes a branch at address p with displacement byte d
\* leaves program_counter = (p + 2 + signed(d)) mod 65536 when the branch
\* condition holds, and p + 2 when it does not.
C12_BranchTarget ==
  (call.fn = "step" /\ result = "Ok" /\ SteppedOperation \in BranchOperations) =>
    LET p == call.registers.program_counter
        d == CallCell(p + 1)
        signed == IF d > 127 THEN d - 256 ELSE d
        condition == BranchCondition(SteppedOperation)
        taken == StatusBit(call.registers.status, condition[1]) = condition[2]
    IN  registers.program_counter =
          IF taken THEN (p + 2 + signed) % (2^16) ELSE p + 2

(***************************************************************************)
(* Operand resolution: fetch_operand applied in every mode.                *)
(***************************************************************************)

\* Values of the registers X and Y and of program_counter when an operand
\* is fetched.
IndexSamples == {0, 1, 2, 255}
OperandInit ==
  /\ overflow_checks \in BOOLEAN
  /\ memory = LoadedMemory(<<16, 18, 255>> \o [i \in 1..13 |-> 0] \o <<52, 18, 255, 255>>
                             \o [i \in 1..235 |-> 0] \o <<205, 171>>)
  /\ \E x \in IndexSamples, y \in IndexSamples, pc \in {0, 1, 2} :
       registers = [initialize.registers EXCEPT !.x = x, !.y = y, !.program_counter = pc]
  /\ result = "Ok"
  /\ fold = [steps |-> 0, i |-> 0]
  /\ call = NoCall
  /\ io = NoIo

\* fetch_operand(mode), on a machine whose program_counter is at the
\* operand bytes of an instruction.
FetchOperand ==
  /\ call = NoCall
  /\ \E mode \in OperandMode :
       LET r == fetch_operand(Machine, mode)
       IN  /\ memory' = r.cs.memory
           /\ registers' = r.cs.registers
           /\ result' = Outcome(r)
           /\ call' = [fn |-> "fetch_operand", mode |-> mode, memory |-> memory,
                       registers |-> registers]
           /\ io' = [stage |-> "operand", operand |-> r.val]
  /\ UNCHANGED <<overflow_checks, fold>>

SpecOperand == OperandInit /\ [][FetchOperand]_vars

\* The little-endian word at `index` of the memory the last call started from.
CallWord(index) == CallCell(index) + 256 * CallCell(index + 1)

\* C13: IndirectY resolves to Address((word at z + Y) mod 65536), z being
\* the byte at program_counter, and advances program_counter by 1.
C13_IndirectYUsesY ==
  (call.fn = "fetch_operand" /\ call.mode = "IndirectY") =>
    LET z == CallCell(call.registers.program_counter)
    IN  /\ result = "Ok"
        /\ io.operand = Address((CallWord(z) + call.registers.y) % (2^16))
        /\ registers.program_counter = call.registers.program_counter + 1

(***************************************************************************)
(* The Fibonacci program of tests/lib.rs.                                  *)
(***************************************************************************)

\* C14: multiple_steps(600) on the Fibonacci image succeeds, no step
\* returning an error, and leaves 1, 2, 3, 5, 8, 13, 21, 34, 55, 89, 144,
\* 233 at the addresses 0x1FF, 0x1FE, ..., 0x1F4.
C14_FibonacciRuns ==
  (memory.len = FibonacciImage.len /\ fold.steps = FibonacciSteps) =>
    /\ result = "Ok"
    /\ fold.i = FibonacciSteps =>
         \A i \in 0..11 : Cell(Machine, 511 - i) = <<1, 2, 3, 5, 8, 13, 21, 34, 55, 89, 144, 233>>[i + 1]

(***************************************************************************)
(* JSR followed by RTS, as in the test in_executes_jump.                   *)
(***************************************************************************)

JsrInit ==
  /\ overflow_checks \in BOOLEAN
  /\ memory = initialize.memory
  /\ \E pc \in {1, 2, 256, 21930, 65535}, sp \in Byte :
       registers = [initialize.registers EXCEPT !.program_counter = pc,
                                                 !.stack_pointer = sp]
  /\ result = "Ok"
  /\ fold = [steps |-> 0, i |-> 0]
  /\ call = NoCall
  /\ io = NoIo

\* execute_operation(Operation::JSR, Operand::Address(t))
ExecuteJsr ==
  /\ io = NoIo
  /\ \E t \in {0, 30583, 65535} :
       LET r == execute_operation(Machine, "JSR", Address(t))
       IN  /\ memory' = r.cs.memory
           /\ registers' = r.cs.registers
           /\ result' = Outcome(r)
           /\ call' = [fn |-> "execute_operation", op |-> "JSR",
                       operand |-> Address(t), memory |-> memory,
                       registers |-> registers]
           /\ io' = [stage |-> "jsr", p |-> registers.program_counter,
                     s |-> registers.stack_pointer, t |-> t]
  /\ UNCHANGED <<overflow_checks, fold>>

\* execute_operation(Operation::RTS, Operand::Implied) after the JSR.
ExecuteRts ==
  /\ io.stage = "jsr"
  /\ result = "Ok"
  /\ LET r == execute_operation(Machine, "RTS", Implied)
     IN  /\ memory' = r.cs.memory
         /\ registers' = r.cs.registers
         /\ result' = Outcome(r)
         /\ call' = [fn |-> "execute_operation", op |-> "RTS",
                     operand |-> Implied, memory |-> memory,
                     registers |-> registers]
         /\ io' = [io EXCEPT !.stage = "rts"]
  /\ UNCHANGED <<overflow_checks, fold>>

SpecJsr == JsrInit /\ [][ExecuteJsr \/ ExecuteRts]_vars

\* C15: JSR at program_counter p >= 1 with operand Address(t) pushes the
\* word p - 1, high byte first and low byte second, lowers stack_pointer by
\* 2 modulo 256 and sets program_counter to t; the RTS that follows sets
\* program_counter back to p and stack_pointer to its value before the JSR.
C15_JsrRtsLinkage ==
  /\ io.stage = "jsr" =>
       /\ result = "Ok"
       /\ registers.program_counter = io.t
       /\ registers.stack_pointer = (io.s - 2) % 256
       /\ Cell(Machine, 256 + io.s) = (io.p - 1) \div 256
       /\ Cell(Machine, 256 + ((io.s - 1) % 256)) = (io.p - 1) % 256
  /\ io.stage = "rts" =>
       /\ result = "Ok"
       /\ registers.program_counter = io.p
       /\ registers.stack_pointer = io.s

\* JSR $7777 at 0x55AA with stack_pointer 0xFF, then RTS.
C15_Witness ==
  /\ io.stage = "rts"
  /\ io.p = 21930
  /\ io.t = 30583
  /\ io.s = 255
  /\ registers.program_counter = 21930
  /\ registers.stack_pointer = 255
  /\ Cell(Machine, 511) = 85
  /\ Cell(Machine, 510) = 169

(***************************************************************************)
(* Runs of pushes and runs of pulls from every stack pointer.              *)
(***************************************************************************)

\* The longest run of pushes or of pulls.
MaxStackOps == 256

\* The byte every push of a run writes.
PushedByte == 170

StackInit ==
  /\ overflow_checks \in BOOLEAN
  /\ memory = [len |-> 2^16, cells |-> [a \in 256..511 |-> ((a - 256) % 255) + 1]]
  /\ \E sp \in {0, 1, 127, 128, 254, 255} :
       /\ registers = [initialize.registers EXCEPT !.stack_pointer = sp]
       /\ io = [stage |-> "stack", s |-> sp, pushes |-> 0, pulls |-> 0, val |-> 0]
  /\ result = "Ok"
  /\ fold = [steps |-> 0, i |-> 0]
  /\ call = NoCall

\* push_byte_to_stack(PushedByte), in a run of pushes.
PushByte ==
  /\ io.pulls = 0
  /\ io.pushes < MaxStackOps
  /\ result = "Ok"
  /\ LET cs == push_byte_to_stack(Machine, PushedByte)
     IN  /\ memory' = cs.memory
         /\ registers' = cs.registers
         /\ result' = IF cs.panicked THEN "Panic" ELSE "Ok"
  /\ call' = [fn |-> "push_byte_to_stack", memory |-> memory, registers |-> registers]
  /\ io' = [io EXCEPT !.pushes = @ + 1]
  /\ UNCHANGED <<overflow_checks, fold>>

\* pull_byte_from_stack(), in a run of pulls.
PullByte ==
  /\ io.pushes = 0
  /\ io.pulls < MaxStackOps
  /\ result = "Ok"
  /\ LET r == pull_byte_from_stack(Machine)
     IN  /\ memory' = r.cs.memory
         /\ registers' = r.cs.registers
         /\ result' = Outcome(r)
         /\ io' = [io EXCEPT !.pulls = @ + 1, !.val = r.val]
  /\ call' = [fn |-> "pull_byte_from_stack", memory |-> memory, registers |-> registers]
  /\ UNCHANGED <<overflow_checks, fold>>

SpecStack == StackInit /\ [][PushByte \/ PullByte]_vars

\* The addresses whose cell differs between the memory the last call
\* started from and the memory now.
ChangedCells ==
  {a \in DOMAIN memory.cells \cup DOMAIN call.memory.cells :
     Cell(Machine, a) # CallCell(a)}

\* C16: pushes and pulls never fail and move stack_pointer modulo 256: a
\* push at 0x00 leaves 0xFF, a pull at 0xFF leaves 0x00, a run of 256
\* pushes or of 256 pulls returns stack_pointer to the value it started
\* from, a push writes the cell 0x100 + stack_pointer and no other, and a
\* pull reads the cell 0x100 + new stack_pointer and writes none.
C16_StackPointerWraps ==
  /\ result = "Ok"
  /\ (io.pushes = 256 \/ io.pulls = 256) => registers.stack_pointer = io.s
  /\ call.fn = "push_byte_to_stack" =>
       /\ registers.stack_pointer = (call.registers.stack_pointer - 1) % 256
       /\ call.registers.stack_pointer = 0 => registers.stack_pointer = 255
       /\ Cell(Machine, 256 + call.registers.stack_pointer) = PushedByte
       /\ ChangedCells \subseteq {256 + call.registers.stack_pointer}
  /\ call.fn = "pull_byte_from_stack" =>
       /\ registers.stack_pointer = (call.registers.stack_pointer + 1) % 256
       /\ call.registers.stack_pointer = 255 => registers.stack_pointer = 0
       /\ io.val = CallCell(256 + registers.stack_pointer)
       /\ ChangedCells = {}

\* 256 pushes from stack_pointer 0x80 in a build with overflow checks:
\* the pointer passed 0x00 -> 0xFF on the way and is 0x80 again.
C16_Witness ==
  /\ io.stage = "stack"
  /\ io.s = 128
  /\ io.pushes = 256
  /\ overflow_checks
  /\ result = "Ok"
  /\ registers.stack_pointer = 128
  /\ \A a \in 256..511 : Cell(Machine, a) = PushedByte

(***************************************************************************)
(* BIT applied to every accumulator and operand.                           *)
(***************************************************************************)

BitInit ==
  /\ overflow_checks = TRUE
  /\ memory = initialize.memory
  /\ \E a \in Byte, status \in {0, 61, 194, 255} :
       registers = [initialize.registers EXCEPT !.accumulator = a, !.status = status,
                                                 !.x = 1, !.y = 2, !.stack_pointer = 253]
  /\ result = "Ok"
  /\ fold = [steps |-> 0, i |-> 0]
  /\ call = NoCall
  /\ io = NoIo

\* execute_operation(Operation::BIT, Operand::Immediate(m)), as
\* check_accumulator_op of the unit tests calls it.
ExecuteBit ==
  /\ call = NoCall
  /\ \E m \in Byte :
       LET r == execute_operation(Machine, "BIT", Immediate(m))
       IN  /\ memory' = r.cs.memory
           /\ registers' = r.cs.registers
           /\ result' = Outcome(r)
           /\ call' = [fn |-> "execute_operation", op |-> "BIT",
                       operand |-> Immediate(m), memory |-> memory,
                       registers |-> registers]
  /\ UNCHANGED <<overflow_checks, fold, io>>

SpecBit == BitInit /\ [][ExecuteBit]_vars

\* C17: BIT sets Negative to bit 7 of the operand m, Overflow to bit 6 of
\* m and Zero to (a AND m = 0), and leaves the accumulator, X, Y, the stack
\* pointer, the program counter, Carry and the other status bits, and
\* memory unchanged.
C17_BitTest ==
  (call.fn = "execute_operation" /\ call.op = "BIT") =>
    LET a == call.registers.accumulator
        m == call.operand.v
    IN  /\ result = "Ok"
        /\ StatusBit(registers.status, 7) = StatusBit(m, 7)
        /\ StatusBit(registers.status, 6) = StatusBit(m, 6)
        /\ StatusBit(registers.status, 1) =
             (\A i \in 0..7 : ~(StatusBit(a, i) /\ StatusBit(m, i)))
        /\ \A i \in {0, 2, 3, 4, 5} :
             StatusBit(registers.status, i) = StatusBit(call.registers.status, i)
        /\ [registers EXCEPT !.status = 0] = [call.registers EXCEPT !.status = 0]
        /\ memory = call.memory

\* BIT with accumulator 0x0F and operand 0xF0, from status 0x00: Negative,
\* Overflow and Zero set, accumulator still 0x0F.
C17_Witness ==
  /\ call.fn = "execute_operation"
  /\ call.op = "BIT"
  /\ call.registers.accumulator = 15
  /\ call.operand.v = 240
  /\ call.registers.status = 0
  /\ registers.status = 194
  /\ registers.accumulator = 15

(***************************************************************************)
(* NOP, fetched by step.                                                   *)
(***************************************************************************)

\* C18: a step that fetches NOP (0xEA) succeeds and changes only
\* program_counter, by +1: the NOP operation itself changes no register, no
\* flag and no memory cell; and multiple_steps(10) over the image of ten
\* NOP bytes succeeds with memory equal to the image.
C18_NopChangesNothing ==
  /\ (call.fn = "step" /\ CallCell(call.registers.program_counter) = 234) =>
       /\ result = "Ok"
       /\ registers = [call.registers EXCEPT !.program_counter = @ + 1]
       /\ memory = call.memory
  /\ fold.steps = SmoketestSteps =>
       /\ result = "Ok"
       /\ memory = NopImage
       /\ registers = [DefaultRegisterFile EXCEPT !.program_counter = fold.i]

\* The tenth step of the smoketest run has executed.
C18_Witness ==
  /\ fold.steps = SmoketestSteps
  /\ fold.i = SmoketestSteps
  /\ call.fn = "step"
  /\ call.registers.program_counter = 9
  /\ result = "Ok"
  /\ memory = NopImage
  /\ registers.program_counter = 10

(***************************************************************************)
(* execute_operation applied to every operation, as the unit tests of      *)
(* lib.rs call it.                                                         *)
(***************************************************************************)

\* initialize() with memory[0x20] = 0x80 and memory[0x21] = 0x33.
ExecMemory == LoadedMemory([i \in 1..32 |-> 0] \o <<128, 51>>)

ExecInit ==
  /\ overflow_checks \in BOOLEAN
  /\ memory = ExecMemory
  /\ \E a \in {0, 5, 128}, x \in {0, 6, 129}, y \in {0, 7, 130},
        sp \in {0, 253}, status \in {0, 9, 60, 194} :
       registers = [initialize.registers EXCEPT
                      !.accumulator = a, !.x = x, !.y = y,
                      !.stack_pointer = sp, !.status = status,
                      !.program_counter = 2]
  /\ result = "Ok"
  /\ fold = [steps |-> 0, i |-> 0]
  /\ call = NoCall
  /\ io = NoIo

\* state.execute_operation(op, operand)
ExecuteOperation ==
  /\ call = NoCall
  /\ \E op \in Operation,
        operand \in {Implied, Accumulator, Immediate(0), Immediate(5), Immediate(128),
                     Address(32), Address(33), Address(34)} :
       LET r == execute_operation(Machine, op, operand)
       IN  /\ memory' = r.cs.memory
           /\ registers' = r.cs.registers
           /\ result' = Outcome(r)
           /\ call' = [fn |-> "execute_operation", op |-> op,
                       operand |-> operand, memory |-> memory,
                       registers |-> registers]
  /\ UNCHANGED <<overflow_checks, fold, io>>

SpecExec == ExecInit /\ [][ExecuteOperation]_vars

\* C19: BRK returns the Unimplemented error, and so do ADC and SBC when the
\* Decimal flag is set.
C19_UnimplementedSurfaces ==
  call.fn = "execute_operation" =>
    /\ call.op = "BRK" => result = "Unimplemented operation"
    /\ (call.op \in {"ADC", "SBC"} /\ StatusBit(call.registers.status, DECIMAL)) =>
         result = "Unimplemented operation"

\* The register a load writes, the registers a transfer reads and writes,
\* and the register a store reads.
LoadDestination == [LDA |-> "accumulator", LDX |-> "x", LDY |-> "y"]
TransferRegisters ==
  [TAX |-> <<"accumulator", "x">>, TAY |-> <<"accumulator", "y">>,
   TSX |-> <<"stack_pointer", "x">>, TXA |-> <<"x", "accumulator">>,
   TYA |-> <<"y", "accumulator">>]
StoreSource == [STA |-> "accumulator", STX |-> "x", STY |-> "y"]

\* C20: LDA/LDX/LDY and TAX/TAY/TSX/TXA/TYA succeed, copy the moved value
\* into the destination register and set Zero and Negative from it;
\* STA/STX/STY succeed, write the source register to the operand's address
\* and leave the status register unchanged.
C20_LoadsStoresTransfers ==
  call.fn = "execute_operation" =>
    /\ (call.op \in DOMAIN LoadDestination
          /\ call.operand.kind \in {"Immediate", "Address"}) =>
         LET value == IF call.operand.kind = "Immediate" THEN call.operand.v
                      ELSE CallCell(call.operand.v)
         IN  /\ result = "Ok"
             /\ registers[LoadDestination[call.op]] = value
             /\ StatusBit(registers.status, ZERO) = (value = 0)
             /\ StatusBit(registers.status, NEGATIVE) = (value >= 128)
    /\ (call.op \in DOMAIN TransferRegisters /\ call.operand = Implied) =>
         LET value == call.registers[TransferRegisters[call.op][1]]
         IN  /\ result = "Ok"
             /\ registers[TransferRegisters[call.op][2]] = value
             /\ StatusBit(registers.status, ZERO) = (value = 0)
             /\ StatusBit(registers.status, NEGATIVE) = (value >= 128)
    /\ (call.op \in DOMAIN StoreSource /\ call.operand.kind = "Address") =>
         /\ result = "Ok"
         /\ Cell(Machine, call.operand.v) = call.registers[StoreSource[call.op]]
         /\ registers.status = call.registers.status

\* C21: a handler that fails has mutated nothing: when execute_operation
\* returns an error, every register, every flag and every memory cell has
\* the value it had before the call.
C21_FailsBeforeMutating ==
  (call.fn = "execute_operation" /\ result \notin {"Ok", "Panic"}) =>
    /\ registers = call.registers
    /\ memory = call.memory

(***************************************************************************)
(* Operand resolution: addresses and program counter.                      *)
(***************************************************************************)

\* C22: ZeroPage, ZeroPageX and ZeroPageY resolution succeeds for every
\* base byte z and index i (0, X or Y) and yields Address((z + i) mod 256),
\* an address below 256.
C22_ZeroPageWraps ==
  (call.fn = "fetch_operand" /\ call.mode \in {"ZeroPage", "ZeroPageX", "ZeroPageY"}) =>
    LET z == CallCell(call.registers.program_counter)
        i == CASE call.mode = "ZeroPage" -> 0
               [] call.mode = "ZeroPageX" -> call.registers.x
               [] call.mode = "ZeroPageY" -> call.registers.y
    IN  /\ result = "Ok"
        /\ io.operand = Address((z + i) % 256)
        /\ io.operand.v < 256

\* The number of operand bytes of each mode.
OperandWidth ==
  [Accumulator |-> 0, Implied |-> 0, Immediate |-> 1, ZeroPage |-> 1,
   ZeroPageX |-> 1, ZeroPageY |-> 1, IndirectX |-> 1, IndirectY |-> 1,
   Absolute |-> 2, AbsoluteX |-> 2, AbsoluteY |-> 2, Indirect |-> 2]

\* The mode of the instruction the last step fetched.
SteppedMode ==
  decode_instruction(CallCell(call.registers.program_counter)).val[1]

\* The machine the last step passed to fetch_operand: the one it started
\* from, program_counter advanced past the opcode.
SteppedAfterOpcode ==
  [memory |-> call.memory,
   registers |-> [call.registers EXCEPT !.program_counter = @ + 1],
   panicked |-> FALSE]

\* C23: when fetch_operand returns, it has advanced program_counter by the
\* operand width of the mode (0, 1 or 2) and changed no other register and
\* no memory cell; a successful step of an instruction that is not a
\* branch, jump or return advances program_counter by 1 + width.
C23_OperandWidth ==
  (call.fn = "step" /\ SteppedOperation # ""
     /\ call.registers.program_counter < 65535) =>
    LET width == OperandWidth[SteppedMode]
        fetched == fetch_operand(SteppedAfterOpcode, SteppedMode)
    IN  /\ ~fetched.cs.panicked =>
             /\ fetched.cs.registers =
                  [SteppedAfterOpcode.registers EXCEPT !.program_counter = @ + width]
             /\ fetched.cs.memory = call.memory
        /\ (result = "Ok" /\ SteppedOperation \notin (BranchOperations \cup {"JMP", "JSR", "RTS", "RTI"})) =>
             registers.program_counter = call.registers.program_counter + 1 + width

\* LDA $10FF,X (0xBD) at address 0 was stepped: two operand bytes, and
\* program_counter is 3.
C23_Witness ==
  /\ call.fn = "step"
  /\ call.registers.program_counter = 0
  /\ SteppedOperation = "LDA"
  /\ SteppedMode = "AbsoluteX"
  /\ result = "Ok"
  /\ registers.program_counter = 3

(***************************************************************************)
(* CMP, CPX and CPY applied to every register and operand value.           *)
(***************************************************************************)

\* The register each compare reads.
CompareRegister == [CMP |-> "accumulator", CPX |-> "x", CPY |-> "y"]

\* The accumulator takes every byte value r, X is r + 0x55 and Y is
\* r + 0xAA modulo 256, so that each of the three takes every value; the
\* status register starts as 0x00 or 0xFF.
CompareInit ==
  /\ overflow_checks = TRUE
  /\ memory = initialize.memory
  /\ \E r \in Byte, status \in {0, 255} :
       registers = [initialize.registers EXCEPT
                      !.accumulator = r, !.x = (r + 85) % 256, !.y = (r + 170) % 256,
                      !.stack_pointer = 253, !.status = status]
  /\ result = "Ok"
  /\ fold = [steps |-> 0, i |-> 0]
  /\ call = NoCall
  /\ io = NoIo

\* execute_operation(CMP | CPX | CPY, Operand::Immediate(m))
ExecuteCompare ==
  /\ call = NoCall
  /\ \E op \in DOMAIN CompareRegister, m \in Byte :
       LET r == execute_operation(Machine, op, Immediate(m))
       IN  /\ memory' = r.cs.memory
           /\ registers' = r.cs.registers
           /\ result' = Outcome(r)
           /\ call' = [fn |-> "execute_operation", op |-> op,
                       operand |-> Immediate(m), memory |-> memory,
                       registers |-> registers]
  /\ UNCHANGED <<overflow_checks, fold, io>>

SpecCompare == CompareInit /\ [][ExecuteCompare]_vars

\* C24: CMP/CPX/CPY set Zero and Negative from (r - m) mod 256 and Carry
\* exactly when r >= m, and leave every register, Overflow and the other
\* status bits, and memory unchanged.
C24_Compare ==
  (call.fn = "execute_operation" /\ call.op \in DOMAIN CompareRegister) =>
    LET r == call.registers[CompareRegister[call.op]]
        m == call.operand.v
        difference == (r - m) % 256
    IN  /\ result = "Ok"
        /\ StatusBit(registers.status, ZERO) = (difference = 0)
        /\ StatusBit(registers.status, NEGATIVE) = (difference >= 128)
        /\ StatusBit(registers.status, CARRY) = (r >= m)
        /\ \A i \in {INTERRUPT, DECIMAL, BREAK, RESERVED, OVERFLOW} :
             StatusBit(registers.status, i) = StatusBit(call.registers.status, i)
        /\ [registers EXCEPT !.status = 0] = [call.registers EXCEPT !.status = 0]
        /\ memory = call.memory

\* CPY #$80 with Y = 0x80 and status 0xFF: Zero and Carry set, Negative
\* cleared, Overflow still set.
C24_Witness ==
  /\ call.fn = "execute_operation"
  /\ call.op = "CPY"
  /\ call.registers.y = 128
  /\ call.operand.v = 128
  /\ call.registers.status = 255
  /\ registers.status = 127
  /\ registers.y = 128

(***************************************************************************)
(* INC, DEC, INX, DEX, INY and DEY applied to every value.                 *)
(***************************************************************************)

\* The address of the memory cell INC and DEC work on.
IncrementAddress == 32

\* +1 or -1 for each of the six operations.
IncrementDelta ==
  [INC |-> 1, INX |-> 1, INY |-> 1, DEC |-> -1, DEX |-> -1, DEY |-> -1]

\* The cell at IncrementAddress takes every byte value v, X is v + 0x55 and
\* Y is v + 0xAA modulo 256; the status register starts as 0x00 or 0xFF.
IncrementInit ==
  /\ overflow_checks \in BOOLEAN
  /\ \E v \in Byte, status \in {0, 255} :
       /\ memory = write_byte_to_memory(initialize, IncrementAddress, v).memory
       /\ registers = [initialize.registers EXCEPT
                         !.accumulator = 7, !.x = (v + 85) % 256, !.y = (v + 170) % 256,
                         !.stack_pointer = 253, !.status = status]
  /\ result = "Ok"
  /\ fold = [steps |-> 0, i |-> 0]
  /\ call = NoCall
  /\ io = NoIo

\* execute_operation(INC | DEC, Operand::Address(IncrementAddress)) and
\* execute_operation(INX | DEX | INY | DEY, Operand::Implied)
ExecuteIncrement ==
  /\ call = NoCall
  /\ \E op \in DOMAIN IncrementDelta :
       LET operand == IF op \in {"INC", "DEC"} THEN Address(IncrementAddress) ELSE Implied
           r == execute_operation(Machine, op, operand)
       IN  /\ memory' = r.cs.memory
           /\ registers' = r.cs.registers
           /\ result' = Outcome(r)
           /\ call' = [fn |-> "execute_operation", op |-> op,
                       operand |-> operand, memory |-> memory,
                       registers |-> registers]
  /\ UNCHANGED <<overflow_checks, fold, io>>

SpecIncrement == IncrementInit /\ [][ExecuteIncrement]_vars

\* C25: INC/DEC/INX/DEX/INY/DEY replace their target (the memory cell, X or
\* Y) by target +/- 1 modulo 256, set Zero and Negative from the result and
\* change nothing else: not Carry, Overflow or another status bit, not
\* another register, not another memory cell.
C25_IncrementDecrement ==
  (call.fn = "execute_operation" /\ call.op \in DOMAIN IncrementDelta) =>
    LET target == CASE call.op \in {"INC", "DEC"} -> "memory"
                    [] call.op \in {"INX", "DEX"} -> "x"
                    [] call.op \in {"INY", "DEY"} -> "y"
        before == IF target = "memory" THEN CallCell(IncrementAddress)
                  ELSE call.registers[target]
        after == (before + IncrementDelta[call.op]) % 256
    IN  /\ result = "Ok"
        /\ IF target = "memory"
           THEN /\ Cell(Machine, IncrementAddress) = after
                /\ ChangedCells \subseteq {IncrementAddress}
                /\ [registers EXCEPT !.status = 0] = [call.registers EXCEPT !.status = 0]
           ELSE /\ registers[target] = after
                /\ memory = call.memory
                /\ [registers EXCEPT !.status = 0, ![target] = 0]
                     = [call.registers EXCEPT !.status = 0, ![target] = 0]
        /\ StatusBit(registers.status, ZERO) = (after = 0)
        /\ StatusBit(registers.status, NEGATIVE) = (after >= 128)
        /\ \A i \in {CARRY, INTERRUPT, DECIMAL, BREAK, RESERVED, OVERFLOW} :
             StatusBit(registers.status, i) = StatusBit(call.registers.status, i)

\* INC of a cell holding 0xFF in a build with overflow checks, from status
\* 0xFF: the cell is 0x00, Zero stays set and Negative is cleared.
C25_Witness ==
  /\ call.fn = "execute_operation"
  /\ call.op = "INC"
  /\ overflow_checks
  /\ CallCell(IncrementAddress) = 255
  /\ call.registers.status = 255
  /\ result = "Ok"
  /\ Cell(Machine, IncrementAddress) = 0
  /\ registers.status = 127

(***************************************************************************)
(* ASL, LSR, ROL and ROR applied to every value, on the accumulator and    *)
(* on a memory cell.                                                       *)
(***************************************************************************)

\* The address of the memory cell the shifts work on.
ShiftAddress == 32

ShiftOperations == {"ASL", "LSR", "ROL", "ROR"}

\* The accumulator takes every byte value v and the cell at ShiftAddress is
\* v + 0x55 modulo 256; the status register starts as 0x00, 0x01, 0xFE or
\* 0xFF.
ShiftInit ==
  /\ overflow_checks \in BOOLEAN
  /\ \E v \in Byte, status \in {0, 1, 254, 255} :
       /\ memory = write_byte_to_memory(initialize, ShiftAddress, (v + 85) % 256).memory
       /\ registers = [initialize.registers EXCEPT
                         !.accumulator = v, !.x = 1, !.y = 2,
                         !.stack_pointer = 253, !.status = status]
  /\ result = "Ok"
  /\ fold = [steps |-> 0, i |-> 0]
  /\ call = NoCall
  /\ io = NoIo

\* execute_operation(ASL | LSR | ROL | ROR, Accumulator | Address(ShiftAddress))
ExecuteShift ==
  /\ call = NoCall
  /\ \E op \in ShiftOperations, operand \in {Accumulator, Address(ShiftAddress)} :
       LET r == execute_operation(Machine, op, operand)
       IN  /\ memory' = r.cs.memory
           /\ registers' = r.cs.registers
           /\ result' = Outcome(r)
           /\ call' = [fn |-> "execute_operation", op |-> op,
                       operand |-> operand, memory |-> memory,
                       registers |-> registers]
  /\ UNCHANGED <<overflow_checks, fold, io>>

SpecShift == ShiftInit /\ [][ExecuteShift]_vars

\* C26: with v the operand's value and carry_in the Carry flag before, ASL
\* gives (2v) mod 256 and Carry = bit 7 of v; LSR gives v div 2 and
\* Carry = bit 0 of v; ROL gives ((2v) mod 256) + carry_in and Carry = bit 7
\* of v; ROR gives (v div 2) + 128 * carry_in and Carry = bit 0 of v; Zero
\* and Negative follow the result, which is written to the location the
\* operand was read from, the other location keeping its value.
C26_ShiftsAndRotates ==
  (call.fn = "execute_operation" /\ call.op \in ShiftOperations) =>
    LET in_memory == call.operand.kind = "Address"
        v == IF in_memory THEN CallCell(ShiftAddress) ELSE call.registers.accumulator
        carry_in == call.registers.status % 2
        res == CASE call.op = "ASL" -> (2 * v) % 256
                 [] call.op = "LSR" -> v \div 2
                 [] call.op = "ROL" -> ((2 * v) % 256) + carry_in
                 [] call.op = "ROR" -> (v \div 2) + 128 * carry_in
        carry_out == IF call.op \in {"ASL", "ROL"} THEN v >= 128 ELSE v % 2 = 1
    IN  /\ result = "Ok"
        /\ StatusBit(registers.status, CARRY) = carry_out
        /\ StatusBit(registers.status, ZERO) = (res = 0)
        /\ StatusBit(registers.status, NEGATIVE) = (res >= 128)
        /\ IF in_memory
           THEN /\ Cell(Machine, ShiftAddress) = res
                /\ registers.accumulator = call.registers.accumulator
           ELSE /\ registers.accumulator = res
                /\ memory = call.memory

\* ROL of the memory cell holding 0x80 with Carry set: the cell is 0x01,
\* Carry is set, Zero and Negative are clear; the accumulator keeps 0x2B.
C26_Witness ==
  /\ call.fn = "execute_operation"
  /\ call.op = "ROL"
  /\ call.operand = Address(ShiftAddress)
  /\ CallCell(ShiftAddress) = 128
  /\ call.registers.status = 1
  /\ Cell(Machine, ShiftAddress) = 1
  /\ registers.status = 1
  /\ registers.accumulator = 43

(***************************************************************************)
(* The flag instructions applied to every status byte.                     *)
(***************************************************************************)

\* The status bit each flag instruction writes and the value it writes.
FlagWrite ==
  [SEC |-> <<CARRY, TRUE>>, CLC |-> <<CARRY, FALSE>>,
   SED |-> <<DECIMAL, TRUE>>, CLD |-> <<DECIMAL, FALSE>>,
   SEI |-> <<INTERRUPT, TRUE>>, CLI |-> <<INTERRUPT, FALSE>>,
   CLV |-> <<OVERFLOW, FALSE>>]

FlagsInit ==
  /\ overflow_checks \in BOOLEAN
  /\ memory = ExecMemory
  /\ \E status \in Byte :
       registers = [initialize.registers EXCEPT
                      !.accumulator = 7, !.x = 1, !.y = 2,
                      !.stack_pointer = 253, !.status = status,
                      !.program_counter = 2]
  /\ result = "Ok"
  /\ fold = [steps |-> 0, i |-> 0]
  /\ call = NoCall
  /\ io = NoIo

\* execute_operation(SEC | CLC | SED | CLD | SEI | CLI | CLV, Operand::Implied)
ExecuteFlagWrite ==
  /\ call = NoCall
  /\ \E op \in DOMAIN FlagWrite :
       LET r == execute_operation(Machine, op, Implied)
       IN  /\ memory' = r.cs.memory
           /\ registers' = r.cs.registers
           /\ result' = Outcome(r)
           /\ call' = [fn |-> "execute_operation", op |-> op,
                       operand |-> Implied, memory |-> memory,
                       registers |-> registers]
  /\ UNCHANGED <<overflow_checks, fold, io>>

SpecFlags == FlagsInit /\ [][ExecuteFlagWrite]_vars

\* C27: SEC/CLC write status bit 0, SED/CLD bit 3, SEI/CLI bit 2 and CLV
\* clears bit 6; each succeeds from every status byte and leaves the other
\* seven status bits, every other register and memory unchanged.
C27_FlagWritesAreSingleBit ==
  (call.fn = "execute_operation" /\ call.op \in DOMAIN FlagWrite) =>
    LET bit == FlagWrite[call.op][1]
        value == FlagWrite[call.op][2]
    IN  /\ result = "Ok"
        /\ StatusBit(registers.status, bit) = value
        /\ \A i \in (0..7) \ {bit} :
             StatusBit(registers.status, i) = StatusBit(call.registers.status, i)
        /\ [registers EXCEPT !.status = 0] = [call.registers EXCEPT !.status = 0]
        /\ memory = call.memory

\* CLV from status 0xFF leaves 0xBF.
C27_Witness ==
  /\ call.fn = "execute_operation"
  /\ call.op = "CLV"
  /\ call.registers.status = 255
  /\ result = "Ok"
  /\ registers.status = 191

\* ---------------------------------------------------------------------------
\* Instruction timings.

\* A cycle count whose page crossing costs nothing.
cycles(n) == [cycles |-> n, page_boundary_costs_extra |-> FALSE]

\* A cycle count that grows by one when a page boundary is crossed.
cycles_with_extra_cost(n) == [cycles |-> n, page_boundary_costs_extra |-> TRUE]

\* The arms of the match in calculate_cycles, in the order of the source:
\* <<mode, operation, cycle count>>.
calculate_cycles_arms ==
  <<
    <<"Immediate", "ADC", cycles(2)>>,
    <<"ZeroPage", "ADC", cycles(3)>>,
    <<"ZeroPageX", "ADC", cycles(4)>>,
    <<"Absolute", "ADC", cycles(4)>>,
    <<"AbsoluteX", "ADC", cycles_with_extra_cost(4)>>,
    <<"AbsoluteY", "ADC", cycles_with_extra_cost(4)>>,
    <<"IndirectX", "ADC", cycles(6)>>,
    <<"IndirectY", "ADC", cycles_with_extra_cost(5)>>,
    <<"Immediate", "AND", cycles(2)>>,
    <<"ZeroPage", "AND", cycles(3)>>,
    <<"ZeroPageX", "AND", cycles(4)>>,
    <<"Absolute", "AND", cycles(4)>>,
    <<"AbsoluteX", "AND", cycles(4)>>,
    <<"AbsoluteY", "AND", cycles(4)>>,
    <<"IndirectX", "AND", cycles(6)>>,
    <<"IndirectY", "AND", cycles(5)>>,
    <<"Accumulator", "ASL", cycles(1)>>,
    <<"ZeroPage", "ASL", cycles(5)>>,
    <<"ZeroPageX", "ASL", cycles(6)>>,
    <<"Absolute", "ASL", cycles(6)>>,
    <<"AbsoluteX", "ASL", cycles(7)>>,
    <<"Immediate", "BCC", cycles(1)>>,
    <<"Immediate", "BCS", cycles(1)>>,
    <<"Immediate", "BEQ", cycles(1)>>,
    <<"ZeroPage", "BIT", cycles(3)>>,
    <<"Absolute", "BIT", cycles(4)>>,
    <<"Immediate", "BMI", cycles(1)>>,
    <<"Immediate", "BNE", cycles(1)>>,
    <<"Immediate", "BPL", cycles(1)>>,
    <<"Implied", "BRK", cycles(7)>>,
    <<"Immediate", "BVC", cycles(1)>>,
    <<"Immediate", "BVS", cycles(1)>>,
    <<"Implied", "CLC", cycles(2)>>,
    <<"Implied", "CLD", cycles(2)>>,
    <<"Implied", "CLI", cycles(2)>>,
    <<"Implied", "CLV", cycles(2)>>,
    <<"Immediate", "CMP", cycles(2)>>,
    <<"ZeroPage", "CMP", cycles(3)>>,
    <<"ZeroPageX", "CMP", cycles(4)>>,
    <<"Absolute", "CMP", cycles(4)>>,
    <<"AbsoluteX", "CMP", cycles_with_extra_cost(4)>>,
    <<"AbsoluteY", "CMP", cycles_with_extra_cost(4)>>,
    <<"IndirectX", "CMP", cycles(6)>>,
    <<"IndirectY", "CMP", cycles_with_extra_cost(5)>>,
    <<"Immediate", "CPX", cycles(2)>>,
    <<"ZeroPage", "CPX", cycles(3)>>,
    <<"Absolute", "CPX", cycles(4)>>,
    <<"Immediate", "CPY", cycles(2)>>,
    <<"ZeroPage", "CPY", cycles(3)>>,
    <<"Absolute", "CPY", cycles(4)>>,
    <<"ZeroPage", "DEC", cycles(5)>>,
    <<"ZeroPageX", "DEC", cycles(6)>>,
    <<"Absolute", "DEC", cycles(6)>>,
    <<"AbsoluteX", "DEC", cycles(7)>>,
    <<"Implied", "DEX", cycles(2)>>,
    <<"Implied", "DEY", cycles(2)>>,
    <<"Immediate", "EOR", cycles(2)>>,
    <<"ZeroPage", "EOR", cycles(3)>>,
    <<"ZeroPageX", "EOR", cycles(4)>>,
    <<"Absolute", "EOR", cycles(4)>>,
    <<"AbsoluteX", "EOR", cycles_with_extra_cost(4)>>,
    <<"AbsoluteY", "EOR", cycles_with_extra_cost(4)>>,
    <<"IndirectX", "EOR", cycles(6)>>,
    <<"IndirectY", "EOR", cycles_with_extra_cost(5)>>,
    <<"ZeroPage", "INC", cycles(5)>>,
    <<"ZeroPageX", "INC", cycles(6)>>,
    <<"Absolute", "INC", cycles(6)>>,
    <<"AbsoluteX", "INC", cycles(7)>>,
    <<"Implied", "INX", cycles(2)>>,
    <<"Implied", "INY", cycles(2)>>,
    <<"Absolute", "JMP", cycles(3)>>,
    <<"Indirect", "JMP", cycles(5)>>,
    <<"Absolute", "JSR", cycles(6)>>,
    <<"Immediate", "LDA", cycles(2)>>,
    <<"ZeroPage", "LDA", cycles(3)>>,
    <<"ZeroPageX", "LDA", cycles(4)>>,
    <<"Absolute", "LDA", cycles(4)>>,
    <<"AbsoluteX", "LDA", cycles_with_extra_cost(4)>>,
    <<"AbsoluteY", "LDA", cycles_with_extra_cost(4)>>,
    <<"IndirectX", "LDA", cycles(6)>>,
    <<"IndirectY", "LDA", cycles_with_extra_cost(5)>>,
    <<"Immediate", "LDX", cycles(2)>>,
    <<"ZeroPage", "LDX", cycles(3)>>,
    <<"ZeroPageY", "LDX", cycles(4)>>,
    <<"Absolute", "LDX", cycles(4)>>,
    <<"AbsoluteY", "LDX", cycles_with_extra_cost(4)>>,
    <<"Immediate", "LDY", cycles(2)>>,
    <<"ZeroPage", "LDY", cycles(3)>>,
    <<"ZeroPageX", "LDY", cycles(4)>>,
    <<"Absolute", "LDY", cycles(4)>>,
    <<"AbsoluteX", "LDY", cycles_with_extra_cost(4)>>,
    <<"Accumulator", "LSR", cycles(2)>>,
    <<"ZeroPage", "LSR", cycles(5)>>,
    <<"ZeroPageX", "LSR", cycles(6)>>,
    <<"Absolute", "LSR", cycles(6)>>,
    <<"AbsoluteX", "LSR", cycles(7)>>,
    <<"Implied", "NOP", cycles(2)>>,
    <<"Immediate", "ORA", cycles(2)>>,
    <<"ZeroPage", "ORA", cycles(3)>>,
    <<"ZeroPageX", "ORA", cycles(4)>>,
    <<"Absolute", "ORA", cycles(4)>>,
    <<"AbsoluteX", "ORA", cycles_with_extra_cost(4)>>,
    <<"AbsoluteY", "ORA", cycles_with_extra_cost(4)>>,
    <<"IndirectX", "ORA", cycles(6)>>,
    <<"IndirectY", "ORA", cycles_with_extra_cost(5)>>,
    <<"Implied", "PHA", cycles(1)>>,
    <<"Implied", "PHP", cycles(1)>>,
    <<"Implied", "PLA", cycles(1)>>,
    <<"Implied", "PLP", cycles(1)>>,
    <<"Accumulator", "ROL", cycles(2)>>,
    <<"ZeroPage", "ROL", cycles(5)>>,
    <<"ZeroPageX", "ROL", cycles(6)>>,
    <<"Absolute", "ROL", cycles(6)>>,
    <<"AbsoluteX", "ROL", cycles(7)>>,
    <<"Accumulator", "ROR", cycles(2)>>,
    <<"ZeroPage", "ROR", cycles(5)>>,
    <<"ZeroPageX", "ROR", cycles(6)>>,
    <<"Absolute", "ROR", cycles(6)>>,
    <<"AbsoluteX", "ROR", cycles(7)>>,
    <<"Implied", "RTI", cycles(6)>>,
    <<"Implied", "RTS", cycles(6)>>,
    <<"Immediate", "SBC", cycles(2)>>,
    <<"ZeroPage", "SBC", cycles(3)>>,
    <<"ZeroPageX", "SBC", cycles(4)>>,
    <<"Absolute", "SBC", cycles(4)>>,
    <<"AbsoluteX", "SBC", cycles_with_extra_cost(4)>>,
    <<"AbsoluteY", "SBC", cycles_with_extra_cost(4)>>,
    <<"IndirectX", "SBC", cycles(6)>>,
    <<"IndirectY", "SBC", cycles_with_extra_cost(5)>>,
    <<"Implied", "SEC", cycles(2)>>,
    <<"Implied", "SED", cycles(2)>>,
    <<"Implied", "SEI", cycles(2)>>,
    <<"ZeroPage", "STA", cycles(3)>>,
    <<"ZeroPageX", "STA", cycles(4)>>,
    <<"Absolute", "STA", cycles(4)>>,
    <<"AbsoluteX", "STA", cycles(5)>>,
    <<"AbsoluteY", "STA", cycles(5)>>,
    <<"IndirectX", "STA", cycles(6)>>,
    <<"IndirectY", "STA", cycles(6)>>,
    <<"ZeroPage", "STX", cycles(3)>>,
    <<"ZeroPageY", "STX", cycles(4)>>,
    <<"Absolute", "STX", cycles(4)>>,
    <<"ZeroPage", "STY", cycles(3)>>,
    <<"ZeroPageX", "STY", cycles(4)>>,
    <<"Absolute", "STY", cycles(4)>>,
    <<"Implied", "TAX", cycles(2)>>,
    <<"Implied", "TAY", cycles(2)>>,
    <<"Implied", "TSX", cycles(2)>>,
    <<"Implied", "TXA", cycles(2)>>,
    <<"Implied", "TXS", cycles(2)>>,
    <<"Implied", "TYA", cycles(2)>>
  >>

\* A timing function whose catch-all arm answers two cycles.
calculate_cycles_defaulting(instr) ==
  LET hits == {i \in 1..Len(calculate_cycles_arms) :
                 <<calculate_cycles_arms[i][1], calculate_cycles_arms[i][2]>> = instr}
      first == CHOOSE i \in hits : \A j \in hits : i <= j
  IN  IF hits = {} THEN Ok(cycles(2))
      ELSE Ok(calculate_cycles_arms[first][3])

\* calculate_cycles: the first arm that matches the instruction, else the
\* catch-all arm.
calculate_cycles(instr) ==
  LET hits == {i \in 1..Len(calculate_cycles_arms) :
                 <<calculate_cycles_arms[i][1], calculate_cycles_arms[i][2]>> = instr}
      first == CHOOSE i \in hits : \A j \in hits : i <= j
  IN  IF hits = {} THEN Err("Instruction timings not found")
      ELSE Ok(calculate_cycles_arms[first][3])

\* Timing of an instruction given as a pair.
CalculateCycles ==
  /\ io.stage = "instruction"
  /\ io' = [stage |-> "cycles", instruction |-> io.instruction,
            cycles |-> calculate_cycles(io.instruction)]
  /\ UNCHANGED <<memory, registers, result, overflow_checks, fold, call>>

\* Timing of an instruction the decoder produced.
CalculateDecodedCycles ==
  /\ io.stage = "decoded"
  /\ IsOk(io.decoded)
  /\ io' = [stage |-> "decoded_cycles", byte |-> io.byte, instruction |-> io.decoded.val,
            cycles |-> calculate_cycles(io.decoded.val)]
  /\ UNCHANGED <<memory, registers, result, overflow_checks, fold, call>>

CyclesNext == Decode \/ CalculateCycles \/ CalculateDecodedCycles

SpecCycles == TableInit /\ [][CyclesNext]_vars

\* The pairs of the opcode table.
TablePairs == {<<INSTRUCTION_TUPLES[i][2], INSTRUCTION_TUPLES[i][3]>> : i \in 1..NUM_TUPLES}

\* C28: calculate_cycles returns a cycle count with its page-boundary flag
\* for each of the 151 instructions the decoder can produce, and the error
\* "Instruction timings not found" for every pair outside the opcode table.
C28_CyclesCoverTheTable ==
  /\ Cardinality(TablePairs) = 151
  /\ io.stage = "decoded_cycles" =>
       /\ IsOk(io.cycles)
       /\ io.cycles.val.cycles \in 1..7
       /\ io.cycles.val.page_boundary_costs_extra \in BOOLEAN
  /\ io.stage = "cycles" =>
       IF io.instruction \in TablePairs
       THEN /\ IsOk(io.cycles)
            /\ io.cycles.val.cycles \in 1..7
            /\ io.cycles.val.page_boundary_costs_extra \in BOOLEAN
       ELSE io.cycles = Err("Instruction timings not found")

C28_Witness ==
  /\ io.stage = "decoded_cycles"
  /\ io.byte = 125
  /\ io.instruction = <<"AbsoluteX", "ADC">>
  /\ io.cycles = Ok(cycles_with_extra_cost(4))

(***************************************************************************)
(* The Reserved flag as step leaves it.                                    *)
(***************************************************************************)

\* C29: in every reachable state reading the Reserved flag (bit 5) yields
\* set, and the status byte a PHP step pushes has bit 5 set.
C29_ReservedReadsSet ==
  /\ get_status_flag(Machine, RESERVED)
  /\ (call.fn = "step" /\ result = "Ok" /\ SteppedOperation = "PHP") =>
       Bit(Cell(Machine, 256 + call.registers.stack_pointer), RESERVED) = 1

(***************************************************************************)
(* The branch operations, called as the unit test it_branches calls them.  *)
(***************************************************************************)

\* initialize() with the program counters of it_branches and the two ends of
\* the address space, and every combination of Carry, Zero, Overflow and
\* Negative with the other four bits clear or set.
BranchInit ==
  /\ overflow_checks \in BOOLEAN
  /\ memory = initialize.memory
  /\ \E pc \in {0, 1, 83, 166, 32768, 65534, 65535},
        status \in {c * (2^CARRY) + z * (2^ZERO) + v * (2^OVERFLOW) + n * (2^NEGATIVE) + rest :
                      c \in {0, 1}, z \in {0, 1}, v \in {0, 1}, n \in {0, 1}, rest \in {0, 60}} :
       registers = [initialize.registers EXCEPT
                      !.program_counter = pc, !.status = status]
  /\ result = "Ok"
  /\ fold = [steps |-> 0, i |-> 0]
  /\ call = NoCall
  /\ io = NoIo

\* state.execute_operation(branch, Operand::Immediate(d))
ExecuteBranch ==
  /\ call = NoCall
  /\ \E op \in BranchOperations, d \in Byte :
       LET r == execute_operation(Machine, op, Immediate(d))
       IN  /\ memory' = r.cs.memory
           /\ registers' = r.cs.registers
           /\ result' = Outcome(r)
           /\ call' = [fn |-> "execute_operation", op |-> op,
                       operand |-> Immediate(d), memory |-> memory,
                       registers |-> registers]
  /\ UNCHANGED <<overflow_checks, fold, io>>

SpecBranch == BranchInit /\ [][ExecuteBranch]_vars

\* C30: a branch operation called with program counter c and displacement
\* byte d is taken exactly when its flag has the required value (BCC
\* Carry=0, BCS Carry=1, BEQ Zero=1, BNE Zero=0, BMI Negative=1, BPL
\* Negative=0, BVC Overflow=0, BVS Overflow=1); taken, the program counter
\* becomes (c + signed(d) - 2) mod 65536 with signed(d) = d - 256 for
\* d > 127; not taken, it stays c; nothing else changes.
C30_BranchArithmetic ==
  call.fn = "execute_operation" =>
    LET c == call.registers.program_counter
        d == call.operand.v
        status == call.registers.status
        signed == IF d > 127 THEN d - 256 ELSE d
        taken ==
          CASE call.op = "BCC" -> Bit(status, 0) = 0
            [] call.op = "BCS" -> Bit(status, 0) = 1
            [] call.op = "BEQ" -> Bit(status, 1) = 1
            [] call.op = "BNE" -> Bit(status, 1) = 0
            [] call.op = "BMI" -> Bit(status, 7) = 1
            [] call.op = "BPL" -> Bit(status, 7) = 0
            [] call.op = "BVC" -> Bit(status, 6) = 0
            [] call.op = "BVS" -> Bit(status, 6) = 1
    IN  /\ result = "Ok"
        /\ memory = call.memory
        /\ registers = [call.registers EXCEPT
                          !.program_counter =
                            IF taken THEN (c + signed - 2) % 65536 ELSE c]

\* BCC with displacement 0xF0 from 0x0001 and Carry clear wraps below zero
\* to 0xFFEF.
C30_Witness ==
  /\ call.fn = "execute_operation"
  /\ call.op = "BCC"
  /\ call.operand = Immediate(240)
  /\ call.registers.program_counter = 1
  /\ call.registers.status = 0
  /\ result = "Ok"
  /\ registers.program_counter = 65519

(***************************************************************************)
(* A run of pushes followed by as many pulls.                              *)
(***************************************************************************)

\* initialize() with a starting stack pointer, a number n of bytes to push
\* and the way they are pulled afterwards: pull_byte_from_stack, PLA or PLP.
LifoInit ==
  /\ overflow_checks \in BOOLEAN
  /\ memory = initialize.memory
  /\ \E sp \in {0, 1, 128, 255}, n \in {1, 2, 3, 255, 256},
        via \in {"pull_byte_from_stack", "PLA", "PLP"} :
       /\ registers = [initialize.registers EXCEPT !.stack_pointer = sp, !.status = 60]
       /\ io = [stage |-> "lifo", s |-> sp, n |-> n, via |-> via,
                pushed |-> <<>>, pulls |-> 0, val |-> 0]
  /\ result = "Ok"
  /\ fold = [steps |-> 0, i |-> 0]
  /\ call = NoCall

\* push_byte_to_stack(b): the k-th push of the run pushes (37 * k) mod 256,
\* so the 256 bytes of the longest run are distinct.
LifoPush ==
  /\ io.stage = "lifo"
  /\ io.pulls = 0
  /\ Len(io.pushed) < io.n
  /\ result = "Ok"
  /\ LET b == (37 * (Len(io.pushed) + 1)) % 256
         cs == push_byte_to_stack(Machine, b)
     IN  /\ memory' = cs.memory
         /\ registers' = cs.registers
         /\ result' = IF cs.panicked THEN "Panic" ELSE "Ok"
         /\ io' = [io EXCEPT !.pushed = Append(@, b)]
  /\ call' = [fn |-> "push_byte_to_stack", memory |-> memory, registers |-> registers]
  /\ UNCHANGED <<overflow_checks, fold>>

\* pull_byte_from_stack(), execute_operation(PLA, Implied) or
\* execute_operation(PLP, Implied), once the n bytes are pushed.
LifoPull ==
  /\ io.stage = "lifo"
  /\ Len(io.pushed) = io.n
  /\ io.pulls < io.n
  /\ result = "Ok"
  /\ LET r == IF io.via = "pull_byte_from_stack" THEN pull_byte_from_stack(Machine)
              ELSE execute_operation(Machine, io.via, Implied)
     IN  /\ memory' = r.cs.memory
         /\ registers' = r.cs.registers
         /\ result' = Outcome(r)
         /\ io' = [io EXCEPT !.pulls = @ + 1, !.val = r.val]
  /\ call' = [fn |-> io.via, memory |-> memory, registers |-> registers]
  /\ UNCHANGED <<overflow_checks, fold>>

SpecLifo == LifoInit /\ [][LifoPush \/ LifoPull]_vars

\* C31: the stack is LIFO over the stack page: a push writes the byte to
\* 0x100 + stack_pointer and then decrements stack_pointer; a pull
\* increments stack_pointer and then reads 0x100 + stack_pointer; after
\* pushing b1..bn (n <= 256) the next n pulls return bn..b1 and
\* stack_pointer is back at its starting value; PLA also sets Zero and
\* Negative from the pulled byte and PLP replaces the whole status byte.
C31_StackIsLifo ==
  io.stage = "lifo" =>
    /\ result = "Ok"
    /\ call.fn = "push_byte_to_stack" =>
         /\ Cell(Machine, 256 + call.registers.stack_pointer) = io.pushed[Len(io.pushed)]
         /\ ChangedCells \subseteq {256 + call.registers.stack_pointer}
         /\ registers = [call.registers EXCEPT
                           !.stack_pointer = (call.registers.stack_pointer - 1) % 256]
    /\ io.pulls > 0 =>
         LET pulled == io.pushed[io.n - io.pulls + 1]
         IN  /\ registers.stack_pointer = (call.registers.stack_pointer + 1) % 256
             /\ pulled = CallCell(256 + registers.stack_pointer)
             /\ memory = call.memory
             /\ io.pulls = io.n => registers.stack_pointer = io.s
             /\ io.via = "pull_byte_from_stack" =>
                  /\ io.val = pulled
                  /\ registers = [call.registers EXCEPT
                                    !.stack_pointer = (call.registers.stack_pointer + 1) % 256]
             /\ io.via = "PLA" =>
                  /\ registers.accumulator = pulled
                  /\ StatusBit(registers.status, ZERO) = (pulled = 0)
                  /\ StatusBit(registers.status, NEGATIVE) = (pulled >= 128)
                  /\ \A i \in 0..7 \ {ZERO, NEGATIVE} :
                       StatusBit(registers.status, i) = StatusBit(call.registers.status, i)
                  /\ registers.x = call.registers.x
                  /\ registers.y = call.registers.y
                  /\ registers.program_counter = call.registers.program_counter
             /\ io.via = "PLP" =>
                  registers = [call.registers EXCEPT
                                 !.stack_pointer = (call.registers.stack_pointer + 1) % 256,
                                 !.status = pulled]

\* 256 bytes pushed from stack pointer 0x80 and pulled again with PLA: the
\* last pull returns the first byte pushed, 37, and the pointer is 0x80.
C31_Witness ==
  /\ io.stage = "lifo"
  /\ io.s = 128
  /\ io.n = 256
  /\ io.via = "PLA"
  /\ Len(io.pushed) = 256
  /\ io.pulls = 256
  /\ result = "Ok"
  /\ registers.accumulator = 37
  /\ registers.stack_pointer = 128

(***************************************************************************)
(* RTS and RTI over two pushed frames, as the unit test it_executes_returns *)
(* calls them.                                                             *)
(***************************************************************************)

\* initialize() after push_word_to_stack(w1), push_byte_to_stack(s) and
\* push_word_to_stack(w2).
ReturnsInit ==
  /\ overflow_checks \in BOOLEAN
  /\ \E sp \in {0, 1, 2, 255}, w1 \in {0, 57005, 65535}, s \in {0, 87, 255},
        w2 \in {0, 255, 48879, 65534, 65535} :
       LET start == [memory |-> initialize.memory,
                     registers |-> [initialize.registers EXCEPT !.stack_pointer = sp],
                     panicked |-> FALSE]
           pushed == push_word_to_stack(
                       push_byte_to_stack(push_word_to_stack(start, w1), s), w2)
       IN  /\ memory = pushed.memory
           /\ registers = pushed.registers
           /\ io = [stage |-> "pushed", sp |-> sp, w1 |-> w1, s |-> s, w2 |-> w2]
  /\ result = "Ok"
  /\ fold = [steps |-> 0, i |-> 0]
  /\ call = NoCall

\* execute_operation(RTS, Implied), then execute_operation(RTI, Implied).
ExecuteReturn ==
  /\ io.stage \in {"pushed", "RTS"}
  /\ result = "Ok"
  /\ LET op == IF io.stage = "pushed" THEN "RTS" ELSE "RTI"
         r == execute_operation(Machine, op, Implied)
     IN  /\ memory' = r.cs.memory
         /\ registers' = r.cs.registers
         /\ result' = Outcome(r)
         /\ call' = [fn |-> "execute_operation", op |-> op,
                     operand |-> Implied, memory |-> memory,
                     registers |-> registers]
         /\ io' = [io EXCEPT !.stage = op]
  /\ UNCHANGED <<overflow_checks, fold>>

SpecReturns == ReturnsInit /\ [][ExecuteReturn]_vars

\* C32: after push_word(w1), push_byte(s), push_word(w2), RTS pops a word
\* and sets program_counter to that word + 1 (16-bit), and the RTI that
\* follows pops the status byte and then the program counter as a word, with
\* no adjustment, raising stack_pointer by 3 modulo 256: status = s and
\* program_counter = w1.
C32_Returns ==
  /\ io.stage = "RTS" =>
       /\ result = "Ok"
       /\ memory = call.memory
       /\ registers = [call.registers EXCEPT
                         !.program_counter = (io.w2 + 1) % 65536,
                         !.stack_pointer = (call.registers.stack_pointer + 2) % 256]
  /\ io.stage = "RTI" =>
       /\ result = "Ok"
       /\ memory = call.memory
       /\ registers = [call.registers EXCEPT
                         !.program_counter = io.w1,
                         !.status = io.s,
                         !.stack_pointer = (call.registers.stack_pointer + 3) % 256]
       /\ registers.stack_pointer = io.sp

(***************************************************************************)
(* set_status_flag and get_status_flag on every status byte.               *)
(***************************************************************************)

\* state.set_status_flag(flag, new_flag)
SetStatusFlag ==
  /\ call = NoCall
  /\ \E flag \in {CARRY, ZERO, INTERRUPT, DECIMAL, BREAK, RESERVED, OVERFLOW, NEGATIVE},
        new_flag \in BOOLEAN :
       LET cs == set_status_flag(Machine, flag, new_flag)
       IN  /\ memory' = cs.memory
           /\ registers' = cs.registers
           /\ result' = IF cs.panicked THEN "Panic" ELSE "Ok"
           /\ call' = [fn |-> "set_status_flag", flag |-> flag, new_flag |-> new_flag,
                       memory |-> memory, registers |-> registers]
  /\ UNCHANGED <<overflow_checks, fold, io>>

SpecStatus == FlagsInit /\ [][SetStatusFlag]_vars

\* C33: the flags have the bit indices Carry 0, Zero 1, Interrupt 2,
\* Decimal 3, Break 4, Reserved 5, Overflow 6, Negative 7; for every status
\* byte s, flag f and boolean v, set_status_flag(f, v) changes only bit
\* index(f) of s, get_status_flag(f) is v afterwards and get_status_flag(g)
\* is what it was for every other flag g.
C33_FlagsByBitLayout ==
  /\ <<CARRY, ZERO, INTERRUPT, DECIMAL, BREAK, RESERVED, OVERFLOW, NEGATIVE>>
       = <<0, 1, 2, 3, 4, 5, 6, 7>>
  /\ call.fn = "set_status_flag" =>
       LET before == [memory |-> call.memory, registers |-> call.registers,
                      panicked |-> FALSE]
           s == call.registers.status
           weight == 2^call.flag
           held == (s \div weight) % 2
       IN  /\ result = "Ok"
           /\ memory = call.memory
           /\ registers = [call.registers EXCEPT
                             !.status = s - held * weight
                                          + (IF call.new_flag THEN weight ELSE 0)]
           /\ get_status_flag(Machine, call.flag) = call.new_flag
           /\ \A g \in (0..7) \ {call.flag} :
                get_status_flag(Machine, g) = get_status_flag(before, g)

\* it_sets_status_flags: clearing Zero in 0b00110011 leaves 0b00110001.
C33_Witness ==
  /\ call.fn = "set_status_flag"
  /\ call.registers.status = 51
  /\ call.flag = ZERO
  /\ call.new_flag = FALSE
  /\ registers.status = 49

(***************************************************************************)
(* Absolute and indirect resolution, under the specification of            *)
(* fetch_operand.                                                          *)
(***************************************************************************)

\* C34: Absolute, AbsoluteX and AbsoluteY resolution succeeds for every
\* little-endian base address w at program_counter and index i (0, X or Y)
\* and yields Address((w + i) mod 65536), also when w + i exceeds 0xFFFF.
C34_AbsoluteWraps ==
  (call.fn = "fetch_operand" /\ call.mode \in {"Absolute", "AbsoluteX", "AbsoluteY"}) =>
    LET w == CallWord(call.registers.program_counter)
        i == CASE call.mode = "Absolute" -> 0
               [] call.mode = "AbsoluteX" -> call.registers.x
               [] call.mode = "AbsoluteY" -> call.registers.y
    IN  /\ result = "Ok"
        /\ io.operand = Address((w + i) % 65536)

\* C35: IndirectX resolution takes the base byte z at program_counter, the
\* pointer location (z + X) mod 256, and yields Address of the
\* little-endian word at that location; Indirect resolution takes the
\* little-endian pointer at program_counter and yields Address of the
\* little-endian word stored at that pointer.
C35_IndirectResolution ==
  /\ (call.fn = "fetch_operand" /\ call.mode = "IndirectX") =>
       LET z == CallCell(call.registers.program_counter)
           location == (z + call.registers.x) % 256
       IN  /\ result = "Ok"
           /\ io.operand = Address(CallCell(location) + 256 * CallCell(location + 1))
           /\ memory = call.memory
           /\ registers = [call.registers EXCEPT !.program_counter = @ + 1]
  /\ (call.fn = "fetch_operand" /\ call.mode = "Indirect") =>
       LET low == CallCell(call.registers.program_counter)
           high == CallCell(call.registers.program_counter + 1)
           pointer == low + 256 * high
       IN  /\ result = "Ok"
           /\ io.operand = Address(CallCell(pointer) + 256 * CallCell(pointer + 1))
           /\ memory = call.memory
           /\ registers = [call.registers EXCEPT !.program_counter = @ + 2]

\* IndirectX with base byte 0x10 and X = 0xFF: the pointer location wraps to
\* 0x0F, where the word 0x3400 is stored.
C35_Witness ==
  /\ call.fn = "fetch_operand"
  /\ call.mode = "IndirectX"
  /\ call.registers.program_counter = 0
  /\ call.registers.x = 255
  /\ result = "Ok"
  /\ io.operand = Address(13312)

(***************************************************************************)
(* The assembler front end: tokenize (token/mod.rs) and parse_label        *)
(* (parser/mod.rs).  A string is a sequence of characters, a token the      *)
(* record of its type and text.                                            *)
(***************************************************************************)

\* The longest input string given to tokenize.
MaxInput == 3

\* The most tokens tokenize collects before the run is cut off.
MaxTokens == 4

\* The longest token list given to parse_label.
MaxTokenList == 3

\* str::trim_start: the string without its leading whitespace.
RECURSIVE trim_start(_)
trim_start(input) ==
  IF input # <<>> /\ Head(input) = " " THEN trim_start(Tail(input)) ELSE input

\* Regex::find for the patterns of the rules below: the leftmost match as
\* <<start, end>>, byte offsets, or <<>> when nothing matches.  \d+ and the
\* operator alternation are the rules of it_can_tokenize_math_expressions;
\* \d* also matches the empty string.
find(re, input) ==
  LET digits_from(i) ==
        CHOOSE e \in i..(Len(input) + 1) :
          /\ \A k \in i..(e - 1) : input[k] = "1"
          /\ e = Len(input) + 1 \/ input[e] # "1"
      first(chars) ==
        IF \E i \in 1..Len(input) : input[i] \in chars
        THEN CHOOSE i \in 1..Len(input) :
               input[i] \in chars /\ \A k \in 1..(i - 1) : input[k] \notin chars
        ELSE 0
  IN  CASE re = "\\d*" -> <<0, digits_from(1) - 1>>
        [] re = "\\d+" ->
             IF first({"1"}) = 0 THEN <<>>
             ELSE <<first({"1"}) - 1, digits_from(first({"1"})) - 1>>
        [] re = "\\+|\\-|/|\\*" ->
             IF first({"+"}) = 0 THEN <<>> ELSE <<first({"+"}) - 1, first({"+"})>>

\* munch_token: Some((matched_token, rest_of_input)) as a pair, None as <<>>.
munch_token(input, re) ==
  LET mat == find(re, input)
  IN  IF mat = <<>> THEN <<>>
      ELSE IF mat[1] = 0
           THEN <<SubSeq(input, 1, mat[2]), SubSeq(input, mat[2] + 1, Len(input))>>
           ELSE <<>>

\* parse_label, ensure_tokens_available(tokens, 2) included: the match arm
\* is the slice pattern [Text, Colon], a slice of exactly two tokens.
parse_label(tokens) ==
  IF Len(tokens) < 2 THEN Err("Unexpected end of program")
  ELSE IF /\ Len(tokens) = 2
          /\ tokens[1].token_type = "Text"
          /\ tokens[2].token_type = "Colon"
       THEN Ok(<<SubSeq(tokens, 3, Len(tokens)), tokens[1].text>>)
       ELSE Err("Didn't find a label")

\* A call of tokenize(input, token_rules), after the first trim_start, or a
\* token list about to be given to parse_label.
AssemblerInit ==
  /\ overflow_checks = FALSE
  /\ memory = initialize.memory
  /\ registers = initialize.registers
  /\ result = "Ok"
  /\ fold = [steps |-> 0, i |-> 0]
  /\ call = NoCall
  /\ \/ \E n \in 0..MaxInput :
          \E input \in [1..n -> {"1", "+", " ", "a"}] :
            \E token_rules \in
                 { <<[token_type |-> "Number", regex |-> "\\d+"],
                     [token_type |-> "Operator", regex |-> "\\+|\\-|/|\\*"]>>,
                   <<[token_type |-> "Operator", regex |-> "\\+|\\-|/|\\*"],
                     [token_type |-> "Number", regex |-> "\\d*"]>>,
                   <<[token_type |-> "Number", regex |-> "\\d+"]>>,
                   <<>> } :
              io = [stage |-> "tokenize", token_rules |-> token_rules,
                    partially_tokenized_input |-> trim_start(input),
                    tokens |-> <<>>]
     \/ \E n \in 0..MaxTokenList :
          \E tokens \in [1..n -> {[token_type |-> "Text", text |-> "GotoLabel"],
                                  [token_type |-> "Colon", text |-> ":"],
                                  [token_type |-> "Text", text |-> "nop"]}] :
            io = [stage |-> "tokens", tokens |-> tokens]

\* One iteration of the while loop of tokenize.
TokenizeLoop ==
  /\ io.stage = "tokenize"
  /\ Len(io.partially_tokenized_input) > 0
  /\ Len(io.tokens) < MaxTokens
  /\ LET applicable == {i \in 1..Len(io.token_rules) :
                          munch_token(io.partially_tokenized_input,
                                      io.token_rules[i].regex) # <<>>}
     IN  IF applicable = {}
         THEN /\ result' = "Unrecognized token in input"
              /\ io' = [io EXCEPT !.stage = "returned"]
         ELSE LET rule == io.token_rules[CHOOSE i \in applicable :
                                           \A j \in applicable : i <= j]
                  munched == munch_token(io.partially_tokenized_input, rule.regex)
              IN  /\ result' = "Ok"
                  /\ io' = [io EXCEPT
                              !.tokens = Append(@, [token_type |-> rule.token_type,
                                                    text |-> munched[1]]),
                              !.partially_tokenized_input = trim_start(munched[2])]
  /\ call' = [fn |-> "tokenize_loop", input |-> io.partially_tokenized_input]
  /\ UNCHANGED <<memory, registers, overflow_checks, fold>>

\* The loop condition fails: Ok(tokens).
TokenizeReturn ==
  /\ io.stage = "tokenize"
  /\ Len(io.partially_tokenized_input) = 0
  /\ io' = [io EXCEPT !.stage = "returned"]
  /\ call' = [fn |-> "tokenize_return", input |-> io.partially_tokenized_input]
  /\ UNCHANGED <<memory, registers, result, overflow_checks, fold>>

\* parse_label(tokens)
ParseLabel ==
  /\ io.stage = "tokens"
  /\ io' = [stage |-> "parse_label", tokens |-> io.tokens,
            parsed |-> parse_label(io.tokens)]
  /\ UNCHANGED <<memory, registers, result, overflow_checks, fold, call>>

SpecAssembler == AssemblerInit /\ [][TokenizeLoop \/ TokenizeReturn \/ ParseLabel]_vars

\* C36: for every token list that begins with a Text token followed by a
\* Colon token, whatever follows, parse_label returns the text of the Text
\* token and the list without those two tokens; for every other list it
\* returns an error.
C36_ParseLabel ==
  io.stage = "parse_label" =>
    IF /\ Len(io.tokens) >= 2
       /\ io.tokens[1].token_type = "Text"
       /\ io.tokens[2].token_type = "Colon"
    THEN io.parsed = Ok(<<SubSeq(io.tokens, 3, Len(io.tokens)), io.tokens[1].text>>)
    ELSE ~IsOk(io.parsed)

\* C39: tokenize terminates: every iteration of its loop either returns the
\* unrecognized-token error or leaves a strictly shorter remaining input,
\* also when a rule matches the empty string at the current position.
C39_TokenizeTerminates ==
  call.fn = "tokenize_loop" =>
    \/ io.stage = "returned" /\ result = "Unrecognized token in input"
    \/ Len(io.partially_tokenized_input) < Len(call.input)

(***************************************************************************)
(* SBC against ADC of the complemented operand.                            *)
(***************************************************************************)

\* C37: for all a, b in 0..255 and carry_in, SBC with operand b yields the
\* accumulator, Carry, Overflow, Zero and Negative that ADC with operand
\* 255 - b yields from the same starting state.
C37_SbcIsAdcOfComplement ==
  (call.fn = "execute_operation" /\ call.op = "SBC") =>
    LET before == [memory |-> call.memory, registers |-> call.registers,
                   panicked |-> FALSE]
        adc == execute_operation(before, "ADC", Immediate(255 - call.operand.v))
    IN  /\ result = "Ok"
        /\ Outcome(adc) = "Ok"
        /\ registers.accumulator = adc.cs.registers.accumulator
        /\ \A flag \in {CARRY, OVERFLOW, ZERO, NEGATIVE} :
             get_status_flag(Machine, flag) = get_status_flag(adc.cs, flag)

\* 0x50 - 0xB0 with carry set: 0xA0, Overflow and Negative set, Carry
\* clear, as 0x50 + 0x4F + 1.
C37_Witness ==
  /\ call.fn = "execute_operation"
  /\ call.op = "SBC"
  /\ call.registers.accumulator = 80
  /\ call.operand.v = 176
  /\ call.registers.status = 1
  /\ result = "Ok"
  /\ registers.accumulator = 160
  /\ registers.status = 192

(***************************************************************************)
(* A rotation followed by the opposite rotation of the same location.      *)
(***************************************************************************)

\* execute_operation(ROL | ROR, operand) on the machine of ShiftInit, then
\* execute_operation of the other rotation with the same operand.
ExecuteRotatePair ==
  /\ io.stage \in {"none", "rotated"}
  /\ result = "Ok"
  /\ \E first \in {"ROL", "ROR"}, location \in {Accumulator, Address(ShiftAddress)} :
       LET op == IF io.stage = "none" THEN first
                 ELSE IF io.first = "ROL" THEN "ROR" ELSE "ROL"
           operand == IF io.stage = "none" THEN location ELSE io.operand
           r == execute_operation(Machine, op, operand)
       IN  /\ memory' = r.cs.memory
           /\ registers' = r.cs.registers
           /\ result' = Outcome(r)
           /\ call' = [fn |-> "execute_operation", op |-> op,
                       operand |-> operand, memory |-> memory,
                       registers |-> registers]
           /\ io' = IF io.stage = "none"
                    THEN [stage |-> "rotated", first |-> op, operand |-> operand,
                          v |-> get_operand_value(Machine, operand).val,
                          c |-> get_status_flag(Machine, CARRY)]
                    ELSE [io EXCEPT !.stage = "restored"]
  /\ UNCHANGED <<overflow_checks, fold>>

SpecRotate == ShiftInit /\ [][ExecuteRotatePair]_vars

\* C38: ROL and ROR are inverse rotations of the nine bits Carry, value: for
\* every operand value v and Carry c, ROL followed by ROR of the same
\* location, accumulator or memory cell, restores the value v and Carry = c,
\* and so does ROR followed by ROL.
C38_RotatesAreInverse ==
  /\ io.stage \in {"rotated", "restored"} => result = "Ok"
  /\ io.stage = "restored" =>
       /\ get_operand_value(Machine, io.operand).val = io.v
       /\ get_status_flag(Machine, CARRY) = io.c
       /\ registers.accumulator =
            IF io.operand = Accumulator THEN io.v ELSE (io.v - 85) % 256
       /\ Cell(Machine, ShiftAddress) =
            IF io.operand = Accumulator THEN (io.v + 85) % 256 ELSE io.v

\* ROR and then ROL of the memory cell holding 0x01 with Carry clear: the
\* cell passed 0x00 with Carry set and holds 0x01 again, Carry clear.
C38_Witness ==
  /\ io.stage = "restored"
  /\ io.first = "ROR"
  /\ io.operand = Address(ShiftAddress)
  /\ io.v = 1
  /\ ~io.c
  /\ call.op = "ROL"
  /\ CallCell(ShiftAddress) = 0
  /\ StatusBit(call.registers.status, CARRY)
  /\ Cell(Machine, ShiftAddress) = 1
  /\ ~StatusBit(registers.status, CARRY)

(***************************************************************************)
(* The control bits of the status register, under the specification of     *)
(* execute_operation.                                                      *)
(***************************************************************************)

\* C40: after a successful execute_operation the InterruptDisable, Decimal,
\* Break and Reserved bits (2, 3, 4, 5) are what they were, unless the
\* operation is SEI or CLI (bit 2), SED or CLD (bit 3), or PLP or RTI, which
\* replace the whole byte from the stack.
C40_ControlBitsKept ==
  (call.fn = "execute_operation" /\ result = "Ok") =>
    \A bit \in {INTERRUPT, DECIMAL, BREAK, RESERVED} :
      \/ StatusBit(registers.status, bit) = StatusBit(call.registers.status, bit)
      \/ bit = INTERRUPT /\ call.op \in {"SEI", "CLI"}
      \/ bit = DECIMAL /\ call.op \in {"SED", "CLD"}
      \/ call.op \in {"PLP", "RTI"}

\* LDA #$00 with the four control bits set: Zero joins them, 0x3C -> 0x3E.
C40_Witness ==
  /\ call.fn = "execute_operation"
  /\ call.op = "LDA"
  /\ call.operand = Immediate(0)
  /\ call.registers.status = 60
  /\ result = "Ok"
  /\ registers.status = 62

====
